---- MODULE Spec2Model ----
(***************************************************************************)
(* Model of snow_cli: the cookie-persisting session (session.py), the      *)
(* login / elevate / run_script commands and the script-output parser      *)
(* (commands.py).  Text is modelled as sequences of one-character strings, *)
(* so that splitting, trimming, searching, formatting and parsing are      *)
(* computed character by character, as the code computes them.             *)
(***************************************************************************)
EXTENDS Integers, Sequences, FiniteSets, TLC

VARIABLES
    cookie_file,      \* per instance: the cookie jar file (exists, mode, text)
    last_run_output,  \* per instance: the text of last_run_output.txt, or None
    proc,             \* per process: the position and the locals of its command
    requests,         \* number of HTTP requests made so far
    live,             \* the processes that run commands
    targets,          \* the instances commands are run against
    html,      \* the response body handed to _parse_and_display_output
    trace,     \* per <PRE> block: the decoded block and its split list
    parsed,    \* its result: the stdout and the stderr stream
    dphase,    \* "ready" before the call, "done" after it
    page,      \* the text of the page a token getter fetched
    tcommand,  \* the command whose token getter is called
    got,       \* what the getter did: the token returned or the error raised
    tphase,    \* "ready" before the getter extracts, "done" after it
    audit_log,       \* the entries of ~/.snow-run/audit.log, in order
    tool,            \* per process: the MCP tool call it is serving
    config_json,     \* ~/.snow-run/config.json: the instances and the default
    keyring,         \* the passwords held by the system keyring
    cfg_op,          \* the last call of a Config method and how it ended
    sys_db_object,   \* per table name: the server's answer about its parent
    walk,            \* _get_table_hierarchy: its locals and its position
    sys_dictionary,  \* the rows the server returns for the dictionary query
    table_fields     \* what _fetch_table_fields returned or raised

dvars == <<html, trace, parsed, dphase>>

tvars == <<page, tcommand, got, tphase>>

svars == <<cookie_file, last_run_output, proc, requests, live, targets>>

mvars == <<audit_log, tool>>

cvars == <<config_json, keyring, cfg_op>>

hvars == <<sys_db_object, walk, sys_dictionary, table_fields>>

xvars == <<mvars, cvars, hvars>>

vars == <<svars, dvars, tvars, xvars>>

(***************************************************************************)
(* Bounds of the model                                                     *)
(***************************************************************************)
\* number of pieces an enumerated HTML input is built from
MaxPieces == 4
\* number of HTTP requests the commands make in a run of the model
MaxRequests == 3

(***************************************************************************)
(* Character-level text helpers (Python str operations)                    *)
(***************************************************************************)
UpperChars == <<"A","B","C","D","E","F","G","H","I","J","K","L","M",
                "N","O","P","Q","R","S","T","U","V","W","X","Y","Z">>

LowerChars == <<"a","b","c","d","e","f","g","h","i","j","k","l","m",
                "n","o","p","q","r","s","t","u","v","w","x","y","z">>

\* str.lower() of one character (what re.IGNORECASE compares)
Lower(c) ==
    IF \E k \in 1..26 : UpperChars[k] = c
    THEN LowerChars[CHOOSE k \in 1..26 : UpperChars[k] = c]
    ELSE c

\* the characters str.strip() removes (those of the model's alphabet)
IsSpace(c) == c \in {" ", "\n", "\t"}

\* s[i:j] of Python with 1-based inclusive bounds; empty when j < i
Slice(s, i, j) == IF j < i THEN <<>> ELSE SubSeq(s, i, j)

\* pat occurs in s at position i, compared case-sensitively
MatchAt(s, i, pat) ==
    /\ i >= 1
    /\ i + Len(pat) - 1 <= Len(s)
    /\ \A k \in 1..Len(pat) : s[i + k - 1] = pat[k]

\* pat occurs in s at position i, compared under re.IGNORECASE
MatchAtCI(s, i, pat) ==
    /\ i >= 1
    /\ i + Len(pat) - 1 <= Len(s)
    /\ \A k \in 1..Len(pat) : Lower(s[i + k - 1]) = Lower(pat[k])

\* Python's `pat in s`
Contains(s, pat) == \E i \in 1..(Len(s) + 1) : MatchAt(s, i, pat)

\* Python's str.strip()
Strip(s) ==
    LET keep == {i \in 1..Len(s) : ~IsSpace(s[i])}
    IN  IF keep = {} THEN <<>>
        ELSE LET lo == CHOOSE i \in keep : \A j \in keep : i <= j
                 hi == CHOOSE i \in keep : \A j \in keep : j <= i
             IN  SubSeq(s, lo, hi)

RECURSIVE Flatten(_)
\* "".join(seq): concatenation of a sequence of texts
Flatten(ss) == IF ss = <<>> THEN <<>> ELSE Head(ss) \o Flatten(Tail(ss))

(***************************************************************************)
(* Literals of commands.py                                                 *)
(***************************************************************************)
PreOpen      == <<"<","P","R","E",">">>
PreClose     == <<"<","/","P","R","E",">">>
\* the split marker of line 180: "*** Script: " with its trailing space
ScriptSplit  == <<"*","*","*"," ","S","c","r","i","p","t",":"," ">>
\* the detection literal of line 189: "*** Script:" without the space
ScriptMarker == <<"*","*","*"," ","S","c","r","i","p","t",":">>
BrUpper      == <<"<","B","R","/",">">>
BrLower      == <<"<","b","r","/",">">>

(***************************************************************************)
(* html.unescape (line 175), for the named references the alphabet can     *)
(* spell: lt, gt, amp, quot, with or without the closing semicolon.  The   *)
(* alphabet has no "#", so numeric references do not occur.                *)
(***************************************************************************)
\* characters that end a named character reference: [^\t\n\f <&#;]
EndsRef(c) == c \in {"\t", "\n", " ", "<", "&", "#", ";"}

\* the html5 table restricted to the names the alphabet can spell
Html5(name) ==
    CASE name = <<"l","t">>         -> <<"<">>
      [] name = <<"g","t">>         -> <<">">>
      [] name = <<"a","m","p">>     -> <<"&">>
      [] name = <<"q","u","o","t">> -> <<"\"">>
      [] OTHER                      -> <<>>

InHtml5(name) == Html5(name) # <<>>

\* length of the run [^\t\n\f <&#;]{1,32} starting at position i
RefRun(s, i) ==
    LET stops == {j \in i..Len(s) : EndsRef(s[j])}
        stop  == IF stops = {} THEN Len(s) + 1
                 ELSE CHOOSE j \in stops : \A k \in stops : j <= k
        n     == stop - i
    IN  IF n > 32 THEN 32 ELSE n

RECURSIVE UnescapeFrom(_, _)
\* _charref.sub(_replace_charref, s) from position i on
UnescapeFrom(s, i) ==
    IF i > Len(s) THEN <<>>
    ELSE IF s[i] # "&" THEN <<s[i]>> \o UnescapeFrom(s, i + 1)
    ELSE
      LET n    == RefRun(s, i + 1)
          name == Slice(s, i + 1, i + n)
          semi == i + n + 1 <= Len(s) /\ s[i + n + 1] = ";"
          next == IF semi THEN i + n + 2 ELSE i + n + 1
          \* prefixes s[:x] tried by _replace_charref, longest first
          pre  == {x \in 2..n : InHtml5(Slice(name, 1, x))}
      IN  IF n = 0 THEN <<"&">> \o UnescapeFrom(s, i + 1)
          ELSE IF InHtml5(name) THEN Html5(name) \o UnescapeFrom(s, next)
          ELSE IF pre # {}
               THEN LET x == CHOOSE y \in pre : \A z \in pre : z <= y
                    IN  Html5(Slice(name, 1, x)) \o Slice(s, i + 1 + x, next - 1)
                        \o UnescapeFrom(s, next)
          ELSE Slice(s, i, next - 1) \o UnescapeFrom(s, next)

\* html.unescape(block)
Unescape(s) == UnescapeFrom(s, 1)

(***************************************************************************)
(* _parse_and_display_output (commands.py 160-206)                         *)
(***************************************************************************)
\* first position >= i at which pat matches case-insensitively, 0 if none
FindCI(s, i, pat) ==
    LET hits == {j \in i..Len(s) : MatchAtCI(s, j, pat)}
    IN  IF hits = {} THEN 0 ELSE CHOOSE j \in hits : \A k \in hits : j <= k

RECURSIVE FindPreFrom_UnclosedToEnd(_, _)
\* a variant that takes an unclosed <PRE> as a block reaching to the end of
\* the input (as the pattern <PRE>(.*?)(?:</PRE>|$) would)
FindPreFrom_UnclosedToEnd(s, i) ==
    LET o == FindCI(s, i, PreOpen)
        c == IF o = 0 THEN 0 ELSE FindCI(s, o + Len(PreOpen), PreClose)
    IN  IF o = 0 THEN <<>>
        ELSE IF c = 0 THEN <<Slice(s, o + Len(PreOpen), Len(s))>>
        ELSE <<Slice(s, o + Len(PreOpen), c - 1)>>
             \o FindPreFrom_UnclosedToEnd(s, c + Len(PreClose))

\* a variant whose block runs to the last closing tag of the input (the
\* greedy pattern <PRE>(.*)</PRE>)
FindPreFrom_Greedy(s, i) ==
    LET o == FindCI(s, i, PreOpen)
        closes == IF o = 0 THEN {}
                  ELSE {j \in (o + Len(PreOpen))..Len(s) : MatchAtCI(s, j, PreClose)}
    IN  IF closes = {} THEN <<>>
        ELSE <<Slice(s, o + Len(PreOpen),
                     (CHOOSE j \in closes : \A k \in closes : k <= j) - 1)>>

RECURSIVE FindPreFrom(_, _)
\* re.findall(r"<PRE>(.*?)</PRE>", html, DOTALL | IGNORECASE) from position i
FindPreFrom(s, i) ==
    LET o == FindCI(s, i, PreOpen)
        c == IF o = 0 THEN 0 ELSE FindCI(s, o + Len(PreOpen), PreClose)
    IN  IF o = 0 \/ c = 0 THEN <<>>
        ELSE <<Slice(s, o + Len(PreOpen), c - 1)>> \o FindPreFrom(s, c + Len(PreClose))

\* line 171: the contents of the <PRE> blocks, in document order
FindPreBlocks(s) == FindPreFrom(s, 1)

\* length of the split marker matching at position i, 0 if none matches
MarkerLenAt(s, i) ==
    IF MatchAtCI(s, i, ScriptSplit) THEN Len(ScriptSplit)
    ELSE IF MatchAtCI(s, i, BrUpper) THEN Len(BrUpper)
    ELSE IF MatchAtCI(s, i, BrLower) THEN Len(BrLower)
    ELSE 0

\* which alternative of the pattern matches at position i
MarkerKindAt(s, i) == IF MatchAtCI(s, i, ScriptSplit) THEN "script" ELSE "br"

RECURSIVE SepsFrom(_, _)
\* the delimiters re.split consumes from position i on, in order
SepsFrom(s, i) ==
    IF i > Len(s) THEN <<>>
    ELSE LET m == MarkerLenAt(s, i)
         IN  IF m > 0 THEN <<MarkerKindAt(s, i)>> \o SepsFrom(s, i + m)
             ELSE SepsFrom(s, i + 1)

RECURSIVE SplitFrom(_, _, _)
\* re.split from position i, the current segment having started at `from`
SplitFrom(s, from, i) ==
    IF i > Len(s) THEN <<Slice(s, from, Len(s))>>
    ELSE LET m == MarkerLenAt(s, i)
         IN  IF m > 0 THEN <<Slice(s, from, i - 1)>> \o SplitFrom(s, i + m, i + m)
             ELSE SplitFrom(s, from, i + 1)

\* line 180: re.split(r"\*\*\* Script: |<BR/>|<br/>", block, flags=re.IGNORECASE)
SplitMarkers(block) == SplitFrom(block, 1, 1)

\* a variant that tests for the marker in any letter case, as the split does
HasScriptMarker_AnyCase(block) ==
    \E i \in 1..(Len(block) + 1) : MatchAtCI(block, i, ScriptMarker)

\* line 189: "*** Script:" in block
HasScriptMarker(block) == Contains(block, ScriptMarker)

\* a variant with the parity test inverted (i % 2 == 0 for stdout)
StreamOf_ParityInverted(block, i) ==
    IF HasScriptMarker(block)
    THEN IF i % 2 = 0 THEN "stdout" ELSE "stderr"
    ELSE "stderr"

\* a variant whose else branch (line 197) appends to stdout_parts
StreamOf_UnmarkedToStdout(block, i) ==
    IF HasScriptMarker(block)
    THEN IF i % 2 = 1 THEN "stdout" ELSE "stderr"
    ELSE "stdout"

\* lines 189-197: the stream a non-empty part at 0-based index i goes to
StreamOf(block, i) ==
    IF HasScriptMarker(block)
    THEN IF i % 2 = 1 THEN "stdout" ELSE "stderr"
    ELSE "stderr"

RECURSIVE BlockParts_NoStrip(_, _, _, _)
\* a variant without part.strip() (line 184): only empty parts are skipped
BlockParts_NoStrip(block, parts, k, stream) ==
    IF k > Len(parts) THEN <<>>
    ELSE LET part == parts[k]
             rest == BlockParts_NoStrip(block, parts, k + 1, stream)
         IN  IF part = <<>> THEN rest
             ELSE IF StreamOf(block, k - 1) = stream THEN <<part>> \o rest
             ELSE rest

RECURSIVE BlockParts(_, _, _, _)
\* lines 183-197: the loop over enumerate(parts) from 1-based position k,
\* collecting the parts that go to `stream`
BlockParts(block, parts, k, stream) ==
    IF k > Len(parts) THEN <<>>
    ELSE LET part == Strip(parts[k])
             rest == BlockParts(block, parts, k + 1, stream)
         IN  IF part = <<>> THEN rest
             ELSE IF StreamOf(block, k - 1) = stream THEN <<part>> \o rest
             ELSE rest

\* a variant without html.unescape (line 175 missing)
ParseTrace_NoUnescape(html_response) ==
    LET pre_blocks == FindPreBlocks(html_response)
    IN  [k \in 1..Len(pre_blocks) |->
            LET block == pre_blocks[k]
            IN  [block |-> block, parts |-> SplitMarkers(block),
                 seps |-> SepsFrom(block, 1)]]

\* lines 171-180: per <PRE> block, the decoded block, the list re.split
\* returns for it and the delimiters it split at
ParseTrace(html_response) ==
    LET pre_blocks == FindPreBlocks(html_response)
    IN  [k \in 1..Len(pre_blocks) |->
            LET block == Unescape(pre_blocks[k])
            IN  [block |-> block, parts |-> SplitMarkers(block),
                 seps |-> SepsFrom(block, 1)]]

RECURSIVE BlocksParts_Prepend(_, _, _)
\* a variant that puts each block's parts in front of the list (insert at 0
\* instead of append)
BlocksParts_Prepend(tr, k, stream) ==
    IF k > Len(tr) THEN <<>>
    ELSE BlocksParts_Prepend(tr, k + 1, stream)
         \o BlockParts(tr[k].block, tr[k].parts, 1, stream)

RECURSIVE BlocksParts(_, _, _)
\* lines 173-197: the loop over pre_blocks from block k on, appending each
\* block's parts to one stream's list
BlocksParts(tr, k, stream) ==
    IF k > Len(tr) THEN <<>>
    ELSE BlockParts(tr[k].block, tr[k].parts, 1, stream)
         \o BlocksParts(tr, k + 1, stream)

\* lines 167-206: the two lists, as printed (line 205 skips empty lines)
Streams(tr) ==
    [stdout |-> BlocksParts(tr, 1, "stdout"),
     stderr |-> SelectSeq(BlocksParts(tr, 1, "stderr"), LAMBDA line : line # <<>>)]

\* _parse_and_display_output(html_response): what goes to stdout and stderr
ParseOutput(html_response) == Streams(ParseTrace(html_response))

(***************************************************************************)
(* The cookie jar file (session.py 20-44): MozillaCookieJar text, one       *)
(* cookie per line, seven tab-separated fields.  A cookie of the store is  *)
(* a record [domain, name, value, expires]; the path is always "/".        *)
(***************************************************************************)
\* Python's None (a value no text equals)
None == <<"None">>

Tab == "\t"

\* first line of NETSCAPE_HEADER_TEXT, which load() requires
MagicLine == <<"#"," ","N","e","t","s","c","a","p","e"," ","H","T","T","P"," ","C","o","o","k","i","e"," ","F","i","l","e">>
\* the alternative spelling NETSCAPE_MAGIC_RGX accepts
MagicLineShort == <<"#"," ","H","T","T","P"," ","C","o","o","k","i","e"," ","F","i","l","e">>
\* the rest of NETSCAPE_HEADER_TEXT: comment lines and a blank line
HeaderRest ==
    << <<"#"," ","h","t","t","p",":","/","/","c","u","r","l",".","h","a","x","x",".","s","e","/","r","f","c","/","c","o","o","k","i","e","_","s","p","e","c",".","h","t","m","l">>,
       <<"#"," ","T","h","i","s"," ","i","s"," ","a"," ","g","e","n","e","r","a","t","e","d"," ","f","i","l","e","!"," "," ","D","o"," ","n","o","t"," ","e","d","i","t",".">>,
       <<>> >>

FalseText == <<"F","A","L","S","E">>
TrueText  == <<"T","R","U","E">>
Slash     == <<"/">>

RECURSIVE JoinTab(_)
\* "\t".join(fields)
JoinTab(fields) ==
    IF Len(fields) = 0 THEN <<>>
    ELSE IF Len(fields) = 1 THEN fields[1]
    ELSE fields[1] \o <<Tab>> \o JoinTab(Tail(fields))

RECURSIVE SplitTabFrom(_, _, _)
\* line.split("\t") from position i, the current field having started at `from`
SplitTabFrom(line, from, i) ==
    IF i > Len(line) THEN <<Slice(line, from, Len(line))>>
    ELSE IF line[i] = Tab
         THEN <<Slice(line, from, i - 1)>> \o SplitTabFrom(line, i + 1, i + 1)
         ELSE SplitTabFrom(line, from, i + 1)

\* line.split("\t")
SplitTab(line) == SplitTabFrom(line, 1, 1)

\* the line MozillaCookieJar.save writes for one cookie: a cookie without a
\* value is written with an empty name and its name in the value field
CookieLine(cookie) ==
    JoinTab(<< cookie.domain,
               IF MatchAt(cookie.domain, 1, <<".">>) THEN TrueText ELSE FalseText,
               Slash,
               FalseText,
               IF cookie.expires = None THEN <<>> ELSE cookie.expires,
               IF cookie.value = None THEN <<>> ELSE cookie.name,
               IF cookie.value = None THEN cookie.name ELSE cookie.value >>)

\* lines 39-43: the text cookie_jar.save(ignore_discard=True,
\* ignore_expires=True) writes for the cookies of the store, in store order
JarText(store) ==
    <<MagicLine>> \o HeaderRest \o [n \in 1..Len(store) |-> CookieLine(store[n])]

\* the bytes of a text file: each line with its newline
FileBytes(lines) == Flatten([k \in 1..Len(lines) |-> lines[k] \o <<"\n">>])

RECURSIVE FileLinesFrom(_, _)
\* the lines of a file's bytes from position `from` on; bytes after the last
\* newline make a last line
FileLinesFrom(bytes, from) ==
    LET ends == {i \in from..Len(bytes) : bytes[i] = "\n"}
    IN  IF from > Len(bytes) THEN <<>>
        ELSE IF ends = {} THEN <<Slice(bytes, from, Len(bytes))>>
        ELSE LET i == CHOOSE x \in ends : \A y \in ends : x <= y
             IN  <<Slice(bytes, from, i - 1)>> \o FileLinesFrom(bytes, i + 1)

\* what a file holds after `new` is written from offset 0 by a writer that
\* opened it: the file was truncated at open, but what another writer put
\* into it since then stays beyond the end of the new text
WriteAtStart(old, new) ==
    IF old = <<>> THEN new
    ELSE LET o == FileBytes(old)
             n == FileBytes(new)
         IN  IF Len(o) <= Len(n) THEN new
             ELSE FileLinesFrom(n \o Slice(o, Len(n) + 1, Len(o)), 1)

IsDigit(c) == c \in {"0","1","2","3","4","5","6","7","8","9"}

\* int(float(expires)) succeeds (digits only, in the model's alphabet)
IsNumber(text) == text # <<>> /\ \A n \in 1..Len(text) : IsDigit(text[n])

\* the line is skipped by load(): a comment ("#" or "$" first) or blank
\* (no line of the model starts with "#HttpOnly_", which load() strips)
IsSkipped(line) ==
    \/ Strip(line) = <<>>
    \/ Strip(line)[1] \in {"#", "$"}

\* the line parses: seven fields, a flag agreeing with the domain's dot, a
\* numeric or empty expiry
LineParses(line) ==
    LET f == SplitTab(line)
    IN  /\ Len(f) = 7
        /\ (f[2] = TrueText) = MatchAt(f[1], 1, <<".">>)
        /\ f[5] = <<>> \/ IsNumber(f[5])

\* the cookie load() builds from a line that parses
LineCookie(line) ==
    LET f == SplitTab(line)
    IN  [domain  |-> f[1],
         name    |-> IF f[6] = <<>> THEN f[7] ELSE f[6],
         value   |-> IF f[6] = <<>> THEN None ELSE f[7],
         expires |-> IF f[5] = <<>> THEN None ELSE f[5]]

SameKey(c1, c2) == c1.domain = c2.domain /\ c1.name = c2.name

\* CookieJar.set_cookie: a cookie with the key of a stored one replaces it in
\* place, a new one goes to the end
SetCookie(store, cookie) ==
    IF \E n \in 1..Len(store) : SameKey(store[n], cookie)
    THEN [n \in 1..Len(store) |-> IF SameKey(store[n], cookie) THEN cookie ELSE store[n]]
    ELSE Append(store, cookie)

\* CookieJar.clear(domain, path, name): the cookie of that key is removed
ClearCookie(store, cookie) == SelectSeq(store, LAMBDA c : ~SameKey(c, cookie))

RECURSIVE SetCookies(_, _)
\* the cookies of a list set one after the other
SetCookies(store, cookies) ==
    IF cookies = <<>> THEN store
    ELSE SetCookies(SetCookie(store, Head(cookies)), Tail(cookies))

\* the owner may read a file of this mode
Readable(mode) == mode \in {"0600", "0644"}

\* the owner may write a file of this mode
Writable(mode) == mode \in {"0600", "0644", "0200"}

\* cookie_jar.load(ignore_discard=True, ignore_expires=True) raises: the file
\* cannot be opened for reading, the first line is not the magic line, or a
\* line that is not skipped does not parse
LoadRaises(f) ==
    \/ ~Readable(f.mode)
    \/ f.text = <<>>
    \/ ~(MatchAt(f.text[1], 1, MagicLine) \/ MatchAt(f.text[1], 1, MagicLineShort))
    \/ \E n \in 2..Len(f.text) : ~IsSkipped(f.text[n]) /\ ~LineParses(f.text[n])

\* lines 20-32: the store of a session constructed on the file: empty when
\* the file does not exist or load() raises (the copying loop is not reached)
LoadCookies(f) ==
    IF ~f.exists THEN <<>>
    ELSE IF LoadRaises(f) THEN <<>>
    ELSE SetCookies(<<>>,
            [n \in 1..Len(SelectSeq(Tail(f.text), LAMBDA l : ~IsSkipped(l))) |->
                LineCookie(SelectSeq(Tail(f.text), LAMBDA l : ~IsSkipped(l))[n])])

\* the (domain, name, value) triples of a store
Triples(store) == { <<store[n].domain, store[n].name, store[n].value>> : n \in 1..Len(store) }

(***************************************************************************)
(* Token extraction (session.py 58-101)                                    *)
(***************************************************************************)
SysparmCk == <<"s","y","s","p","a","r","m","_","c","k">>
ValueEq   == <<"v","a","l","u","e","=","\"">>
GckEq     == <<"g","_","c","k"," ","="," ","'">>

\* [a-zA-Z0-9_]
IsWordChar(c) ==
    \/ \E k \in 1..26 : UpperChars[k] = c \/ LowerChars[k] = c
    \/ IsDigit(c)
    \/ c = "_"

\* length of the run of word characters starting at position i
WordRun(text, i) ==
    LET stops == {j \in i..Len(text) : ~IsWordChar(text[j])}
    IN  IF stops = {} THEN Len(text) + 1 - i
        ELSE (CHOOSE j \in stops : \A k \in stops : j <= k) - i

\* ([a-zA-Z0-9_]+) followed by the closing quote matches at position i
GroupAt(text, i, quote) ==
    /\ WordRun(text, i) >= 1
    /\ i + WordRun(text, i) <= Len(text)
    /\ text[i + WordRun(text, i)] = quote

\* positions j at which value="..." completes a match begun by sysparm_ck at
\* position i: [^>]* spans from i + 10 to j - 1
SysparmEnds(text, i) ==
    { j \in (i + Len(SysparmCk))..Len(text) :
        /\ \A k \in (i + Len(SysparmCk))..(j - 1) : text[k] # ">"
        /\ MatchAt(text, j, ValueEq)
        /\ GroupAt(text, j + Len(ValueEq), "\"") }

\* a variant that returns the group of the last match in the text (as
\* re.findall(pattern, html)[-1] would)
SearchSysparm_LastMatch(text) ==
    LET starts == {i \in 1..Len(text) : MatchAt(text, i, SysparmCk) /\ SysparmEnds(text, i) # {}}
    IN  IF starts = {} THEN None
        ELSE LET i == CHOOSE x \in starts : \A y \in starts : y <= x
                 j == CHOOSE x \in SysparmEnds(text, i) : \A y \in SysparmEnds(text, i) : y <= x
                 g == j + Len(ValueEq)
             IN  SubSeq(text, g, g + WordRun(text, g) - 1)

\* re.search(r'sysparm_ck[^>]*value="([a-zA-Z0-9_]+)"', html).group(1):
\* the leftmost start, then the longest [^>]* (greedy)
SearchSysparm(text) ==
    LET starts == {i \in 1..Len(text) : MatchAt(text, i, SysparmCk) /\ SysparmEnds(text, i) # {}}
    IN  IF starts = {} THEN None
        ELSE LET i == CHOOSE x \in starts : \A y \in starts : x <= y
                 j == CHOOSE x \in SysparmEnds(text, i) : \A y \in SysparmEnds(text, i) : y <= x
                 g == j + Len(ValueEq)
             IN  SubSeq(text, g, g + WordRun(text, g) - 1)

\* re.search(r"g_ck = '([a-zA-Z0-9_]+)'", html).group(1)
SearchGck(text) ==
    LET starts == {i \in 1..Len(text) :
                      MatchAt(text, i, GckEq) /\ GroupAt(text, i + Len(GckEq), "'")}
    IN  IF starts = {} THEN None
        ELSE LET i == CHOOSE x \in starts : \A y \in starts : x <= y
                 g == i + Len(GckEq)
             IN  SubSeq(text, g, g + WordRun(text, g) - 1)

\* the pattern each command's token getter passes to extract_token
\* (lines 66-69, 79-82, 93-96)
ExtractToken(command, text) ==
    IF command = "elevate" THEN SearchGck(text) ELSE SearchSysparm(text)

\* a variant of the check of lines 70, 83, 97 that accepts a missing token
TokenMissing_Never(token) == FALSE

\* a variant of the check that tests `token == ""` only
TokenMissing_OnlyEmpty(token) == token = <<>>

\* lines 70, 83, 97: `if not token`
TokenMissing(token) == token = None \/ token = <<>>

\* the message of the ValueError each getter raises (lines 71-73, 84-87,
\* 98-100), as its literal parts and the instance name
TokenErrorMessage(command, instance) ==
    CASE command = "login" ->
            <<"Could not obtain login token from ", instance>>
      [] command = "run_script" ->
            <<"Cannot get security token for ", instance, ". ",
              "Try logging in again (snow login)">>
      [] command = "elevate" ->
            <<"Could not obtain authentication token to elevate privileges">>

\* the page each command fetches its token from (lines 65, 78, 92)
TokenPath(command) ==
    CASE command = "login"      -> "/login.do"
      [] command = "elevate"    -> "/navpage.do"
      [] command = "run_script" -> "/sys.scripts.do"

\* the path each command posts its action to (commands.py 36, 76, 123)
ActionPath(command) ==
    CASE command = "login"      -> "/login.do"
      [] command = "elevate"    -> "/api/now/ui/impersonate/role"
      [] command = "run_script" -> "/sys.scripts.do"

\* where the POST carries the token (commands.py 38, 81, 132)
TokenField(command) == IF command = "elevate" THEN "X-UserToken" ELSE "sysparm_ck"

\* a variant in which every command takes 200 and 201 for success
IsSuccess_Any2xx(command, status) == status \in {200, 201}

\* a variant in which every command takes only 200 for success
IsSuccess_Only200(command, status) == status = 200

\* the statuses each command takes for success (commands.py 52, 89, 140)
IsSuccess(command, status) ==
    IF command = "elevate" THEN status \in {200, 201} ELSE status = 200

(***************************************************************************)
(* Inputs of the parser: documents built from pieces                       *)
(***************************************************************************)
Hello     == <<"h","e","l","l","o">>
Oops      == <<"o","o","p","s">>
TraceLine == <<"t","r","a","c","e"," ","l","i","n","e">>

\* "<PRE>*** Script: hello<BR/>oops</PRE>"
ExampleScript == PreOpen \o ScriptSplit \o Hello \o BrUpper \o Oops \o PreClose

\* "<PRE><BR/>trace line</PRE>"
ExampleTrace == PreOpen \o BrUpper \o TraceLine \o PreClose

\* the pieces the content of a document is made of; the last two close a
\* block and open the next
Pieces ==
    { ScriptSplit, ScriptMarker, BrUpper, BrLower,
      <<"a">>, <<"b">>, <<" ">>,
      PreClose \o <<"x">> \o PreOpen,
      PreClose \o PreOpen \o ScriptSplit }

\* a second wrapping: tags in another letter case, with text around them
MixedOpen  == <<"y","<","p","r","e",">">>
MixedClose == <<"<","/","P","r","e",">","z">>

PieceSeqs(max) == UNION { [1..n -> Pieces] : n \in 0..max }

Documents ==
    { PreOpen \o Flatten(ps) \o PreClose : ps \in PieceSeqs(MaxPieces) }
    \cup { MixedOpen \o Flatten(ps) \o MixedClose : ps \in PieceSeqs(MaxPieces - 2) }

Inputs == Documents \cup {ExampleScript, ExampleTrace}

NoOutput == [stdout |-> <<>>, stderr |-> <<>>]

(***************************************************************************)
(* The environment of the commands: instances, servers' answers, files     *)
(***************************************************************************)
Procs == {1, 2}

Instances == {"dev", "prd"}

Commands == {"login", "elevate", "run_script"}

\* the cookie domain of an instance (its host name)
Domain(instance) == IF instance = "dev" THEN <<"d","e","v">> ELSE <<"p","r","d">>

NameA == <<"a">>
NameB == <<"b">>

Cookie(domain, name, value, expires) ==
    [domain |-> domain, name |-> name, value |-> value, expires |-> expires]

\* what the Set-Cookie headers of one response ask for, in order: a session
\* cookie, a cookie with a future expiry, a value holding a tab, a cookie
\* without a value, and a deletion (an expiry in the past)
SetCookieChoices(d) ==
    { <<>>,
      << [do |-> "set",   cookie |-> Cookie(d, NameA, <<"v">>, None)] >>,
      << [do |-> "set",   cookie |-> Cookie(d, NameA, <<"w">>, <<"9">>)] >>,
      << [do |-> "set",   cookie |-> Cookie(d, NameB, <<"x", Tab, "y">>, None)] >>,
      << [do |-> "set",   cookie |-> Cookie(d, NameB, None, None)] >>,
      << [do |-> "clear", cookie |-> Cookie(d, NameA, <<>>, <<"1">>)] >> }

RECURSIVE ExtractCookies(_, _)
\* requests' extract_cookies_to_jar: each Set-Cookie of the response is set in
\* the store, one with an expiry in the past clears the cookie of its key
ExtractCookies(store, directives) ==
    IF directives = <<>> THEN store
    ELSE ExtractCookies(
            IF Head(directives).do = "set"
            THEN SetCookie(store, Head(directives).cookie)
            ELSE ClearCookie(store, Head(directives).cookie),
            Tail(directives))

\* pages a server may answer a GET with
PageSysparm == <<"s","y","s","p","a","r","m","_","c","k","\""," ","v","a","l","u","e","=","\"","t","1","\"",">">>
PageGck     == <<"g","_","c","k"," ","="," ","'","t","2","'",";">>
PagePlain   == <<"<","p",">">>

Pages == {PageSysparm, PageGck, PagePlain}

GetStatuses  == {200, 500}
PostStatuses == {200, 201, 500}

\* bodies a server may answer the script POST with
ScriptBodies == {ExampleScript, ExampleTrace, <<>>}

NoFile == [exists |-> FALSE, mode |-> "none", text |-> <<>>]

JarFile(mode, text) == [exists |-> TRUE, mode |-> mode, text |-> text]

Garbage == <<"g","a","r","b","a","g","e">>

\* a jar an earlier run left: an expired cookie and a session cookie
OldStore(d) == << Cookie(d, NameA, <<"v">>, <<"1">>), Cookie(d, NameB, <<"w">>, None) >>

\* the cookie files a command may find: none, a jar, a jar without the magic
\* line, a jar with a broken line after a good one, an empty file, and jars
\* the owner may not read
InitialFiles(d) ==
    { NoFile,
      JarFile("0600", JarText(OldStore(d))),
      JarFile("0600", <<Garbage, CookieLine(OldStore(d)[1])>>),
      JarFile("0600", Append(JarText(OldStore(d)), Garbage)),
      JarFile("0644", <<>>),
      JarFile("0200", JarText(OldStore(d))),
      JarFile("0000", JarText(OldStore(d))) }

\* the mode os.open gives a file it creates: 0o600 where save() passes it,
\* the umask's 0o644 where save() uses open(filename, "w")
CreateModes == {"0600", "0644"}

(***************************************************************************)
(* The commands as processes                                               *)
(***************************************************************************)
\* no token getter is being followed
NoToken == [raised |-> "none", token |-> None, message |-> <<>>]

TokenIdle ==
    /\ page = <<>>
    /\ tcommand = "none"
    /\ got = NoToken
    /\ tphase = "off"

IdleProc ==
    [pc |-> "idle", phase |-> "none", command |-> "none", instance |-> "dev",
     jar_found |-> "none", store |-> <<>>, status |-> 0, set_cookies |-> <<>>,
     body |-> <<>>, token |-> None, sent |-> <<>>, save_calls |-> 0, saves |-> 0,
     rc |-> -1, exc |-> "none", out |-> NoOutput, err |-> <<>>]

\* no MCP tool is being served and nothing was logged
IdleTool ==
    [pc |-> "idle", name |-> "none", instance |-> "dev", calls |-> 0,
     exit_code |-> -1, logged |-> "none", result |-> <<>>]

ToolsIdle ==
    /\ audit_log = <<>>
    /\ tool = [p \in Procs |-> IdleTool]

\* JSON null (Python None) where the other values are strings
Null == "null"

\* no config.json, an empty keyring, no Config method called
NoConfigFile ==
    [exists |-> FALSE, instances |-> <<>>, has_default |-> FALSE,
     default_instance |-> Null]

NoOp == [op |-> "none", instance |-> "none", raised |-> "none",
         keyring_success |-> FALSE, had_password |-> FALSE, was_default |-> FALSE]

ConfigIdle ==
    /\ config_json = NoConfigFile
    /\ keyring = {}
    /\ cfg_op = NoOp

\* no table is being looked up
IdleWalk ==
    [pc |-> "off", table_name |-> <<>>, current |-> <<>>, visited |-> {},
     hierarchy |-> <<>>, queried |-> <<>>]

\* _fetch_table_fields has not been called
NotFetched == [raised |-> "pending", result |-> <<>>]

TablesIdle ==
    /\ sys_db_object = <<>>
    /\ walk = IdleWalk
    /\ sys_dictionary = <<>>
    /\ table_fields = NotFetched

OthersIdle == ToolsIdle /\ ConfigIdle /\ TablesIdle

SessionIdle ==
    /\ cookie_file = [i \in Instances |-> NoFile]
    /\ last_run_output = [i \in Instances |-> None]
    /\ proc = [p \in Procs |-> IdleProc]
    /\ requests = 0
    /\ live = {}
    /\ targets = {}

Init ==
    /\ \E f \in InitialFiles(Domain("dev")) :
          cookie_file = [i \in Instances |->
                            IF i = "dev" THEN f ELSE JarFile("0600", JarText(OldStore(Domain(i))))]
    /\ last_run_output = [i \in Instances |-> None]
    /\ proc = [p \in Procs |-> IdleProc]
    /\ requests = 0
    /\ live = {1}
    /\ targets = {"dev"}
    /\ html = <<>> /\ trace = <<>> /\ parsed = NoOutput /\ dphase = "off"
    /\ TokenIdle
    /\ OthersIdle

\* a variant with one directory for all instances (snow_dir / "tmp")
TmpDir_Shared(instance) == "dev"

\* config.py 188-200: the directory of an instance's files, snow_dir / "tmp" /
\* instance, named here by the instance; cookies.txt and last_run_output.txt
\* are files in it
TmpDir(instance) == instance

\* what _load_cookies finds: no file, a jar that loads, or a file on which
\* load() raises
JarFound(f) ==
    IF ~f.exists THEN "absent" ELSE IF LoadRaises(f) THEN "corrupt" ELSE "ok"

\* the command ends: its return code and the exception it caught, if any;
\* the session and the other locals of the command are gone
Ended(q, rc, exc) ==
    [q EXCEPT !.pc = "done", !.rc = rc, !.exc = exc,
              !.store = <<>>, !.status = 0, !.set_cookies = <<>>, !.body = <<>>,
              !.token = None]

\* the Python class of what is raised inside a command: ValueError by
\* ensure_instance_set / ensure_credentials_set (config.py 202-216) and by the
\* token getters (session.py 71-73, 85-87, 98-100), FileNotFoundError or
\* another OSError by open() of the script file (commands.py 110) and of the
\* cookie file in save(), a requests exception by the HTTP client
ExcClass(exc) ==
    CASE exc \in {"config", "token"} -> "ValueError"
      [] exc = "file"                -> "FileNotFoundError"
      [] exc \in {"unreadable", "save"} -> "PermissionError"
      [] exc = "transport"           -> "ConnectionError"

\* a variant whose commands catch only ValueError
Handler_ValueErrorOnly(command, class) ==
    IF class = "ValueError" THEN "generic" ELSE "none"

\* the except clause of the command that catches an exception of the class
\* (commands.py 59, 97, 152-155): run_script has one for FileNotFoundError,
\* and `except Exception` of each command catches every class raised here
Handler(command, class) ==
    IF command = "run_script" /\ class = "FileNotFoundError" THEN "not_found"
    ELSE "generic"

\* what the except clause prints to stderr (lines 60, 98, 153, 156)
ErrorText(command, handler) ==
    CASE handler = "not_found"  -> "Script file not found: "
      [] command = "login"      -> "Login error: "
      [] command = "elevate"    -> "Elevation error: "
      [] command = "run_script" -> "Script execution error: "

\* what a command prints to stderr for a status that is not a success
\* (lines 56, 93-94, 141)
StatusText(command) ==
    CASE command = "login"      -> <<"Login failed with status code: ">>
      [] command = "elevate"    -> <<"Elevation failed with status code: ", "Response: ">>
      [] command = "run_script" -> <<"Script execution failed with status: ">>

\* an exception is raised inside the try block of the command: the except
\* clause that catches it prints its message and returns 1; without one the
\* exception leaves the command
Raise(q, exc) ==
    LET handler == Handler(q.command, ExcClass(exc))
    IN  IF handler = "none"
        THEN [Ended(q, -1, exc) EXCEPT !.pc = "raised"]
        ELSE Ended([q EXCEPT !.err = <<ErrorText(q.command, handler)>>], 1, exc)

\* login / elevate / run_script up to the constructed session (commands.py
\* 26-29, 66-69, 104-116): the configuration check or the reading of the
\* script file may raise; otherwise SnowSession.__init__ loads the cookies
Invoke(p, command, instance) ==
    /\ p \in live
    /\ instance \in targets
    /\ proc[p].pc \in {"idle", "done"}
    /\ \E outcome \in {"ok", "config", "file", "unreadable"} :
          /\ outcome \in {"file", "unreadable"} => command = "run_script"
          /\ LET q == [IdleProc EXCEPT !.command = command, !.instance = instance]
             IN  proc' = [proc EXCEPT ![p] =
                    IF outcome = "ok"
                    THEN [q EXCEPT !.pc = "send", !.phase = "get",
                                   !.jar_found = JarFound(cookie_file[TmpDir(instance)]),
                                   !.store = LoadCookies(cookie_file[TmpDir(instance)])]
                    ELSE Raise(q, outcome)]
    /\ UNCHANGED <<cookie_file, last_run_output, requests, live, targets, dvars, tvars, xvars>>

\* the request session.get / session.post is about to send (lines 48, 54)
\* and what came back: the body of the response, or None when the client raised
Request(q, reply) ==
    IF q.phase = "get"
    THEN [method |-> "GET", path |-> TokenPath(q.command), field |-> "",
          token |-> None, reply |-> reply]
    ELSE [method |-> "POST", path |-> ActionPath(q.command),
          field |-> TokenField(q.command), token |-> q.token, reply |-> reply]

\* a variant of the failure path of get/post that saves the cookies anyway
\* (as a `finally:` would)
AfterTransportError_Saves(q) ==
    [q EXCEPT !.pc = "open", !.exc = "transport", !.sent = Append(q.sent, Request(q, None))]

\* lines 48, 54: the HTTP client raises; nothing after it runs, the exception
\* leaves get/post and is caught by the command, which returns 1
AfterTransportError(q) ==
    Raise([q EXCEPT !.sent = Append(q.sent, Request(q, None))], "transport")

\* a variant that returns a response with an error status at once, without
\* _save_cookies (as a raise_for_status() guard before line 49 would)
AfterResponse_SkipsSaveOnError(q, status, directives, body) ==
    [q EXCEPT !.pc = IF status >= 400 THEN "ret" ELSE "open",
              !.sent = Append(q.sent, Request(q, body)),
              !.status = status, !.body = body, !.set_cookies = directives,
              !.store = ExtractCookies(q.store, directives)]

\* lines 48, 54 with a response: the cookies it sets are merged into the
\* store; _save_cookies is next
AfterResponse(q, status, directives, body) ==
    [q EXCEPT !.pc = "open", !.sent = Append(q.sent, Request(q, body)),
              !.status = status, !.body = body, !.set_cookies = directives,
              !.store = ExtractCookies(q.store, directives)]

HttpTransportError(p) ==
    /\ p \in live
    /\ proc[p].pc = "send"
    /\ requests < MaxRequests
    /\ requests' = requests + 1
    /\ proc' = [proc EXCEPT ![p] = AfterTransportError(proc[p])]
    /\ UNCHANGED <<cookie_file, last_run_output, live, targets, dvars, tvars, xvars>>

\* the server answers the request of p with a status, Set-Cookie headers
\* and a body
Respond(p, status, directives, body) ==
    /\ p \in live
    /\ proc[p].pc = "send"
    /\ requests < MaxRequests
    /\ requests' = requests + 1
    /\ proc' = [proc EXCEPT ![p] = AfterResponse(proc[p], status, directives, body)]
    /\ UNCHANGED <<cookie_file, last_run_output, live, targets, dvars, tvars, xvars>>

HttpResponse(p) ==
    \E status \in (IF proc[p].phase = "get" THEN GetStatuses ELSE PostStatuses),
       directives \in SetCookieChoices(Domain(proc[p].instance)),
       body \in (IF proc[p].phase = "get" THEN Pages
                 ELSE IF proc[p].command = "run_script" THEN ScriptBodies ELSE {<<>>}) :
       Respond(p, status, directives, body)

\* lines 36-43, first part: save() opens the file with O_CREAT | O_WRONLY |
\* O_TRUNC; a file the owner may not write makes it raise, and the exception
\* leaves get/post
SaveOpen(p) ==
    /\ p \in live
    /\ proc[p].pc = "open"
    /\ LET f == cookie_file[TmpDir(proc[p].instance)]
           q == [proc[p] EXCEPT !.save_calls = @ + 1]
       IN  IF f.exists /\ ~Writable(f.mode)
           THEN /\ proc' = [proc EXCEPT ![p] = Raise(q, "save")]
                /\ UNCHANGED cookie_file
           ELSE /\ \E m \in CreateModes :
                      cookie_file' = [cookie_file EXCEPT ![TmpDir(proc[p].instance)] =
                          JarFile(IF f.exists THEN f.mode ELSE m, <<>>)]
                /\ proc' = [proc EXCEPT ![p] = [q EXCEPT !.pc = "write"]]
    /\ UNCHANGED <<last_run_output, requests, live, targets, dvars, tvars, xvars>>

\* lines 39-43, second part: the header and one line per cookie of the store,
\* written at close from the start of the file
SaveWrite(p) ==
    /\ p \in live
    /\ proc[p].pc = "write"
    /\ cookie_file' = [cookie_file EXCEPT ![TmpDir(proc[p].instance)].text =
                            WriteAtStart(@, JarText(proc[p].store))]
    /\ proc' = [proc EXCEPT ![p].pc = "chmod"]
    /\ UNCHANGED <<last_run_output, requests, live, targets, dvars, tvars, xvars>>

\* line 44: chmod(0o600); get/post then returns the response (lines 50, 56)
SaveChmod(p) ==
    /\ p \in live
    /\ proc[p].pc = "chmod"
    /\ cookie_file' = [cookie_file EXCEPT ![TmpDir(proc[p].instance)].mode = "0600"]
    /\ proc' = [proc EXCEPT ![p].pc = "ret", ![p].saves = @ + 1]
    /\ UNCHANGED <<last_run_output, requests, live, targets, dvars, tvars, xvars>>

\* session.py 66-74, 79-88, 93-101 after the GET returned: the token is
\* extracted from the page; without one ValueError is raised and the command
\* returns 1, with one the command goes on to its POST
TakeToken(p) ==
    /\ p \in live
    /\ proc[p].pc = "ret"
    /\ proc[p].phase = "get"
    /\ LET token == ExtractToken(proc[p].command, proc[p].body)
       IN  proc' = [proc EXCEPT ![p] =
              IF TokenMissing(token)
              THEN Raise([proc[p] EXCEPT !.token = token], "token")
              ELSE [proc[p] EXCEPT !.token = token, !.phase = "post", !.pc = "send"]]
    /\ UNCHANGED <<cookie_file, last_run_output, requests, live, targets, dvars, tvars, xvars>>

\* a variant that sends the POST again when the status is not a success
Finish_RetriesOnFailure(p) ==
    /\ p \in live
    /\ proc[p].pc = "ret"
    /\ proc[p].phase = "post"
    /\ proc' = [proc EXCEPT ![p] =
          IF IsSuccess(proc[p].command, proc[p].status)
          THEN Ended(proc[p], 0, "none")
          ELSE [proc[p] EXCEPT !.pc = "send"]]
    /\ UNCHANGED <<cookie_file, last_run_output, requests, live, targets, dvars, tvars, xvars>>

\* commands.py 52-57, 89-95, 140-150 after the POST returned: the status
\* decides the return code; run_script keeps the raw body and parses it
Finish(p) ==
    /\ p \in live
    /\ proc[p].pc = "ret"
    /\ proc[p].phase = "post"
    /\ IF IsSuccess(proc[p].command, proc[p].status)
       THEN /\ proc' = [proc EXCEPT ![p] =
                  Ended([proc[p] EXCEPT !.out =
                            IF proc[p].command = "run_script"
                            THEN ParseOutput(proc[p].body) ELSE NoOutput],
                        0, "none")]
            /\ last_run_output' =
                  IF proc[p].command = "run_script"
                  THEN [last_run_output EXCEPT ![TmpDir(proc[p].instance)] = proc[p].body]
                  ELSE last_run_output
       ELSE /\ proc' = [proc EXCEPT ![p] =
                  Ended([proc[p] EXCEPT !.err = StatusText(proc[p].command)], 1, "none")]
            /\ UNCHANGED last_run_output
    /\ UNCHANGED <<cookie_file, requests, live, targets, dvars, tvars, xvars>>

\* two invocations at once against one instance whose cookie file does not
\* exist yet (two CLI processes, or two tool calls of the MCP server)
RaceInit ==
    /\ cookie_file = [i \in Instances |-> NoFile]
    /\ last_run_output = [i \in Instances |-> None]
    /\ proc = [p \in Procs |-> IdleProc]
    /\ requests = 0
    /\ live = Procs
    /\ targets = {"dev"}
    /\ html = <<>> /\ trace = <<>> /\ parsed = NoOutput /\ dphase = "off"
    /\ TokenIdle
    /\ OthersIdle

Next ==
    \/ \E p \in Procs, command \in Commands, instance \in Instances :
          Invoke(p, command, instance)
    \/ \E p \in Procs : HttpTransportError(p)
    \/ \E p \in Procs : HttpResponse(p)
    \/ \E p \in Procs : SaveOpen(p)
    \/ \E p \in Procs : SaveWrite(p)
    \/ \E p \in Procs : SaveChmod(p)
    \/ \E p \in Procs : TakeToken(p)
    \/ \E p \in Procs : Finish(p)

Spec == Init /\ [][Next]_vars

\* the answers of a server that sets at most one cookie per response
FewCookies(d) ==
    { <<>>,
      << [do |-> "set", cookie |-> Cookie(d, NameA, <<"v">>, None)] >>,
      << [do |-> "set", cookie |-> Cookie(d, NameB, <<"w">>, <<"9">>)] >> }

\* login invocations against such a server, which answers every request
\* with status 200
LoginNext ==
    \/ \E p \in Procs, instance \in Instances : Invoke(p, "login", instance)
    \/ \E p \in Procs : \E directives \in FewCookies(Domain(proc[p].instance)),
                             body \in {PageSysparm, PagePlain} :
          Respond(p, 200, directives, body)
    \/ \E p \in Procs : SaveOpen(p)
    \/ \E p \in Procs : SaveWrite(p)
    \/ \E p \in Procs : SaveChmod(p)
    \/ \E p \in Procs : TakeToken(p)
    \/ \E p \in Procs : Finish(p)

SpecRace == RaceInit /\ [][LoginNext]_vars

\* one process working on both instances in turn, each with a cookie file
\* holding its own cookies
TwoInstancesInit ==
    /\ cookie_file = [i \in Instances |-> JarFile("0600", JarText(OldStore(Domain(i))))]
    /\ last_run_output = [i \in Instances |-> None]
    /\ proc = [p \in Procs |-> IdleProc]
    /\ requests = 0
    /\ live = {1}
    /\ targets = Instances
    /\ html = <<>> /\ trace = <<>> /\ parsed = NoOutput /\ dphase = "off"
    /\ TokenIdle
    /\ OthersIdle

SpecTwoInstances == TwoInstancesInit /\ [][LoginNext]_vars

(***************************************************************************)
(* The parser as a state machine: one call on one input                    *)
(***************************************************************************)
DemuxInit ==
    /\ SessionIdle
    /\ TokenIdle
    /\ OthersIdle
    /\ html \in Inputs
    /\ parsed = NoOutput
    /\ trace = <<>>
    /\ dphase = "ready"

\* _parse_and_display_output(html)
ParseAndDisplay ==
    /\ dphase = "ready"
    /\ trace' = ParseTrace(html)
    /\ parsed' = Streams(trace')
    /\ dphase' = "done"
    /\ UNCHANGED <<html, svars, tvars, xvars>>

DemuxNext == ParseAndDisplay

SpecDemux == DemuxInit /\ [][DemuxNext]_dvars

(***************************************************************************)
(* Properties of the parser                                                *)
(***************************************************************************)
\* <<k, i>>: block k has, at 1-based position i of its split list, a part
\* that is not blank
Segments ==
    { seg \in UNION { {k} \X (1..Len(trace[k].parts)) : k \in 1..Len(trace) } :
        Strip(trace[seg[1]].parts[seg[2]]) # <<>> }

SegText(seg) == Strip(trace[seg[1]].parts[seg[2]])

\* 0-based position of a segment in its block's split list
SegPos(seg) == seg[2] - 1

\* the segment's block contains the literal "*** Script:"
SegMarked(seg) == Contains(trace[seg[1]].block, ScriptMarker)

\* number of occurrences of the text t in the stream q
Count(q, t) == Cardinality({n \in 1..Len(q) : q[n] = t})

Range(q) == {q[n] : n \in 1..Len(q)}

\* document order of segments: by block, then by position in the block
Before(s1, s2) == s1[1] < s2[1] \/ (s1[1] = s2[1] /\ s1[2] < s2[2])

\* the texts of the segments of S, listed in document order
InOrder(S) ==
    [n \in 1..Cardinality(S) |->
        SegText(CHOOSE x \in S : Cardinality({y \in S : Before(y, x)}) = n - 1)]

AllBlocksMarked == \A k \in 1..Len(trace) : Contains(trace[k].block, ScriptMarker)
NoBlockMarked   == \A k \in 1..Len(trace) : ~Contains(trace[k].block, ScriptMarker)

AllTexts == Range(parsed.stdout) \cup Range(parsed.stderr) \cup {SegText(seg) : seg \in Segments}

\* C6: in a block containing "*** Script:", every non-blank segment at an odd
\* position of the split list goes to stdout and every non-blank segment at an
\* even position goes to stderr, and nothing else reaches either stream;
\* "<PRE>*** Script: hello<BR/>oops</PRE>" gives stdout = [hello], stderr = [oops].
C6_OddStdoutEvenStderr ==
    dphase = "done" =>
        /\ \A seg \in Segments : SegMarked(seg) =>
              /\ SegPos(seg) % 2 = 1 => SegText(seg) \in Range(parsed.stdout)
              /\ SegPos(seg) % 2 = 0 => SegText(seg) \in Range(parsed.stderr)
        /\ AllBlocksMarked =>
              \A t \in AllTexts :
                 /\ Count(parsed.stdout, t) =
                      Cardinality({seg \in Segments : SegPos(seg) % 2 = 1 /\ SegText(seg) = t})
                 /\ Count(parsed.stderr, t) =
                      Cardinality({seg \in Segments : SegPos(seg) % 2 = 0 /\ SegText(seg) = t})
        /\ html = ExampleScript => parsed = [stdout |-> <<Hello>>, stderr |-> <<Oops>>]

\* a marked block with a non-blank segment at an odd and at an even position
C6_Witness ==
    /\ dphase = "done"
    /\ AllBlocksMarked
    /\ \E s1, s2 \in Segments : SegPos(s1) % 2 = 1 /\ SegPos(s2) % 2 = 0

\* the part at 1-based position i of block k follows a "*** Script: " marker
FollowsScript(k, i) == i >= 2 /\ trace[k].seps[i - 1] = "script"

\* C7, as claimed: the text between a "*** Script:" marker and the next marker
\* (or the end of the block) is always classified as stdout.
C7_AfterScriptIsStdout ==
    dphase = "done" =>
        \A seg \in Segments : FollowsScript(seg[1], seg[2]) =>
            /\ SegText(seg) \in Range(parsed.stdout)
            /\ Len(trace) = 1 =>
                  Count(parsed.stdout, SegText(seg)) >=
                     Cardinality({x \in Segments : FollowsScript(x[1], x[2])
                                                   /\ SegText(x) = SegText(seg)})

\* C8: in a block without "*** Script:", every non-blank segment goes to
\* stderr and the block contributes nothing to stdout;
\* "<PRE><BR/>trace line</PRE>" gives stdout = [], stderr = [trace line].
C8_UnmarkedBlockIsStderr ==
    dphase = "done" =>
        /\ \A seg \in Segments : ~SegMarked(seg) => SegText(seg) \in Range(parsed.stderr)
        /\ \A t \in AllTexts :
              /\ Count(parsed.stdout, t) <=
                    Cardinality({seg \in Segments : SegMarked(seg) /\ SegText(seg) = t})
              /\ Count(parsed.stderr, t) >=
                    Cardinality({seg \in Segments : ~SegMarked(seg) /\ SegText(seg) = t})
        /\ NoBlockMarked =>
              /\ parsed.stdout = <<>>
              /\ \A t \in AllTexts :
                    Count(parsed.stderr, t) = Cardinality({seg \in Segments : SegText(seg) = t})
        /\ html = ExampleTrace => parsed = [stdout |-> <<>>, stderr |-> <<TraceLine>>]

\* an unmarked block with non-blank segments next to a marked block
C8_Witness ==
    /\ dphase = "done"
    /\ \E s1, s2 \in Segments : ~SegMarked(s1) /\ SegMarked(s2) /\ SegPos(s2) % 2 = 1

\* the segments the code sends to a stream (lines 189-197)
SegsOf(stream) == {seg \in Segments : StreamOf(trace[seg[1]].block, SegPos(seg)) = stream}

\* C9: each stream lists its segments in document order: by block, and within
\* a block in split order; no segment is duplicated, dropped or reordered.
C9_DocumentOrder ==
    dphase = "done" =>
        /\ parsed.stdout = InOrder(SegsOf("stdout"))
        /\ parsed.stderr = InOrder(SegsOf("stderr"))

\* two blocks that contribute different texts to stdout
C9_Witness ==
    /\ dphase = "done"
    /\ \E s1, s2 \in SegsOf("stdout") : s1[1] < s2[1] /\ SegText(s1) # SegText(s2)

\* C10: no emitted segment is empty or blank, and none has leading or
\* trailing whitespace.
C10_NoBlankSegments ==
    dphase = "done" =>
        \A q \in {parsed.stdout, parsed.stderr} : \A n \in 1..Len(q) :
            /\ q[n] # <<>>
            /\ ~IsSpace(q[n][1])
            /\ ~IsSpace(q[n][Len(q[n])])

\* a blank part was dropped and a padded part was trimmed
C10_Witness ==
    /\ dphase = "done"
    /\ \E k \in 1..Len(trace) : \E i, j \in 1..Len(trace[k].parts) :
          /\ trace[k].parts[i] # <<>> /\ Strip(trace[k].parts[i]) = <<>>
          /\ Strip(trace[k].parts[j]) # <<>> /\ Strip(trace[k].parts[j]) # trace[k].parts[j]

(***************************************************************************)
(* Properties of the session and of the commands                           *)
(***************************************************************************)
\* the cookie file of the instance a process works on
FileOf(p) == cookie_file[TmpDir(proc[p].instance)]

\* the store holds what the Set-Cookie headers of the response asked for
Merged(store, directives) ==
    \A n \in 1..Len(directives) :
        IF directives[n].do = "set"
        THEN \E k \in 1..Len(store) : store[k] = directives[n].cookie
        ELSE \A k \in 1..Len(store) : ~SameKey(store[k], directives[n].cookie)

\* C1: when get/post has returned a response, whatever its status, the cookie
\* file has been rewritten during the call and holds the session's whole
\* store, the cookies set by the response merged in.
C1_SavedOnEveryResponse ==
    \A p \in live : proc[p].pc = "ret" =>
        /\ proc[p].saves = Len(proc[p].sent)
        /\ Merged(proc[p].store, proc[p].set_cookies)
        /\ FileOf(p).exists
        /\ FileOf(p).text = JarText(proc[p].store)
        /\ \A n \in 1..Len(proc[p].store) :
              \E k \in 1..Len(FileOf(p).text) : FileOf(p).text[k] = CookieLine(proc[p].store[n])

\* a call returned a response with an error status that set a cookie
C1_Witness ==
    \E p \in live :
        /\ proc[p].pc = "ret"
        /\ proc[p].status = 500
        /\ proc[p].set_cookies # <<>>
        /\ proc[p].store # <<>>

\* a step that ends the sending of a request: when the HTTP client raised, the
\* call fails, no response is returned and the cookie file is left as it was;
\* otherwise the call goes on to _save_cookies
TransportErrorStep ==
    [][ \A p \in live :
          (proc[p].pc = "send" /\ proc'[p].pc # "send") =>
              IF proc'[p].exc = "transport"
              THEN /\ proc'[p].pc = "done"
                   /\ proc'[p].rc = 1
                   /\ proc'[p].sent[Len(proc'[p].sent)].reply = None
                   /\ proc'[p].save_calls = proc[p].save_calls
                   /\ cookie_file' = cookie_file
              ELSE /\ proc'[p].pc = "open"
                   /\ proc'[p].sent[Len(proc'[p].sent)].reply # None
        ]_vars

\* _save_cookies has been called once for each request that was answered
SaveCallsMatchResponses ==
    \A p \in live : proc[p].pc \in {"send", "ret", "done"} =>
        proc[p].save_calls =
            Cardinality({n \in 1..Len(proc[p].sent) : proc[p].sent[n].reply # None})

\* C2: when the HTTP client raises inside get/post, the call fails, no
\* response is returned and the cookie file is left unchanged; persistence is
\* skipped in this case and in no other.
C2_SaveSkippedOnlyOnTransportError == []SaveCallsMatchResponses /\ TransportErrorStep

\* the POST of a command failed at transport level after its GET was saved
C2_Witness ==
    \E p \in live :
        /\ proc[p].pc = "done"
        /\ proc[p].exc = "transport"
        /\ Len(proc[p].sent) = 2
        /\ proc[p].save_calls = 1

\* C3: in each command the token-page GET comes first, the POST carries the
\* token extracted from the page that GET returned, in the field the command
\* uses, and no POST is sent when the page holds no token.
C3_TokenFromOwnGet ==
    \A p \in live :
        LET sent == proc[p].sent
            cmd  == proc[p].command
        IN  /\ Len(sent) <= 2
            /\ Len(sent) >= 1 =>
                  /\ sent[1].method = "GET"
                  /\ sent[1].path = TokenPath(cmd)
            /\ Len(sent) = 2 =>
                  /\ sent[2].method = "POST"
                  /\ sent[2].path = ActionPath(cmd)
                  /\ sent[2].field = TokenField(cmd)
                  /\ sent[1].reply # None
                  /\ sent[2].token = ExtractToken(cmd, sent[1].reply)
                  /\ sent[2].token # None
                  /\ sent[2].token # <<>>
            /\ (Len(sent) >= 1 /\ sent[1].reply # None
                  /\ ExtractToken(cmd, sent[1].reply) = None) => Len(sent) = 1

\* a POST was sent with a token, and a command ended without a POST because
\* its page held no token
C3_Witness ==
    \E p \in live :
        /\ Len(proc[p].sent) = 2
        /\ proc[p].sent[2].token = <<"t","1">>
        /\ proc[p].command = "run_script"

\* C4, as claimed: a session constructed on a corrupted or unreadable cookie
\* file starts with an empty store, and the next completed request overwrites
\* the file with a valid jar (one that loads).
C4_CorruptFileStartsFresh ==
    \A p \in live : proc[p].jar_found = "corrupt" =>
        /\ (proc[p].pc = "send" /\ proc[p].phase = "get") => proc[p].store = <<>>
        /\ proc[p].pc = "ret" => (FileOf(p).exists /\ ~LoadRaises(FileOf(p)))

\* C5, as claimed: saving a store and loading it in a new session gives the
\* same (domain, name, value) triples.
C5_RoundTrip ==
    \A p \in live : proc[p].pc = "ret" =>
        Triples(LoadCookies(FileOf(p))) = Triples(proc[p].store)

(***************************************************************************)
(* The parser on arbitrary text: empty, without <PRE>, with tags that are  *)
(* not closed or not opened                                                *)
(***************************************************************************)
\* "<pre" without its ">": not a tag
BrokenTag == <<"<","p","r","e">>

TotalPieces ==
    { PreOpen, PreClose, BrokenTag, ScriptSplit, BrUpper, <<"a">>, <<" ">>,
      PreOpen \o <<"b">> \o PreClose }

TotalInputs ==
    { Flatten(ps) : ps \in UNION { [1..n -> TotalPieces] : n \in 0..MaxPieces } }

TotalInit ==
    /\ SessionIdle
    /\ TokenIdle
    /\ OthersIdle
    /\ html \in TotalInputs
    /\ parsed = NoOutput
    /\ trace = <<>>
    /\ dphase = "ready"

SpecTotal == TotalInit /\ [][DemuxNext]_dvars

\* the text holds an opening tag and, after it, a closing tag
HasCompletePair(text) ==
    \E o, c \in 1..Len(text) :
        /\ MatchAtCI(text, o, PreOpen)
        /\ MatchAtCI(text, c, PreClose)
        /\ c >= o + Len(PreOpen)

\* the block holds none of the three split markers and no "*** Script:"
MarkerFree(block) ==
    /\ \A i \in 1..Len(block) : MarkerLenAt(block, i) = 0
    /\ ~Contains(block, ScriptMarker)

\* C11: the call has a result for every input text; a text without a complete
\* <PRE>...</PRE> pair gives two empty streams, and when the blocks hold no
\* marker the result is stderr only: the non-blank blocks, trimmed, in order.
C11_Total ==
    /\ dphase = "ready" =>
          LET r == ParseOutput(html)
          IN  /\ DOMAIN r = {"stdout", "stderr"}
              /\ \A q \in {r.stdout, r.stderr} : DOMAIN q = 1..Len(q)
    /\ dphase = "done" =>
          /\ ~HasCompletePair(html) => (trace = <<>> /\ parsed = NoOutput)
          /\ (\A k \in 1..Len(trace) : MarkerFree(trace[k].block)) =>
                /\ parsed.stdout = <<>>
                /\ parsed.stderr =
                      SelectSeq([k \in 1..Len(trace) |-> Strip(trace[k].block)],
                                LAMBDA t : t # <<>>)

\* an input with an opening tag that is never closed, and text after it
C11_Witness ==
    /\ dphase = "done"
    /\ \E o \in 1..Len(html) : MatchAtCI(html, o, PreOpen) /\ o + Len(PreOpen) <= Len(html)
    /\ ~HasCompletePair(html)
    /\ parsed = NoOutput

(***************************************************************************)
(* The token getters on one fetched page (session.py 58-101)               *)
(***************************************************************************)
\* number of pieces an enumerated page is built from
MaxPagePieces == 3

Abc123 == <<"a","b","c","1","2","3">>

\* sysparm_ck" value="abc123"
ExampleField == SysparmCk \o <<"\"", " ">> \o ValueEq \o Abc123 \o <<"\"">>

PagePieces ==
    { ExampleField,
      SysparmCk \o <<"\"", " ">> \o ValueEq \o <<"t","1","\"">>,
      <<" ">> \o ValueEq \o <<"x","\"">>,
      <<">">>,
      GckEq \o <<"t","2","'",";">>,
      GckEq \o <<"T","_","9","'">>,
      SysparmCk \o <<" ","v","a","l","u","e","=","'","q","'">>,
      SysparmCk \o <<"\"", " ">> \o ValueEq \o <<"\"">> }

TokenPages ==
    { Flatten(ps) : ps \in UNION { [1..n -> PagePieces] : n \in 0..MaxPagePieces } }

DemuxIdle ==
    /\ html = <<>>
    /\ trace = <<>>
    /\ parsed = NoOutput
    /\ dphase = "off"

TokenInit ==
    /\ SessionIdle
    /\ DemuxIdle
    /\ OthersIdle
    /\ page \in TokenPages
    /\ tcommand \in Commands
    /\ got = NoToken
    /\ tphase = "ready"

\* get_login_token / get_script_token / get_elevate_token once the page is
\* fetched: extract_token, then `if not token: raise ValueError(...)`
GetToken ==
    /\ tphase = "ready"
    /\ LET token == ExtractToken(tcommand, page)
       IN  got' = IF TokenMissing(token)
                  THEN [raised |-> "ValueError", token |-> None,
                        message |-> TokenErrorMessage(tcommand, "dev")]
                  ELSE [raised |-> "none", token |-> token, message |-> <<>>]
    /\ tphase' = "done"
    /\ UNCHANGED <<page, tcommand, svars, dvars, xvars>>

TokenNext == GetToken

SpecToken == TokenInit /\ [][TokenNext]_tvars

\* the matches of a command's token pattern in a text, each as
\* <<start of the match, start of the group, position of the closing quote>>
TokenMatches(command, text) ==
    LET n      == Len(text)
        word(a, b) == a <= b /\ \A k \in a..b : IsWordChar(text[k])
    IN  IF command = "elevate"
        THEN { m \in {i \in 1..n : MatchAt(text, i, GckEq)} \X {0}
                      \X {e \in 1..n : text[e] = "'"} :
                 word(m[1] + Len(GckEq), m[3] - 1) }
        ELSE { m \in {i \in 1..n : MatchAt(text, i, SysparmCk)}
                      \X {j \in 1..n : MatchAt(text, j, ValueEq)}
                      \X {e \in 1..n : text[e] = "\""} :
                 /\ m[2] >= m[1] + Len(SysparmCk)
                 /\ \A k \in (m[1] + Len(SysparmCk))..(m[2] - 1) : text[k] # ">"
                 /\ word(m[2] + Len(ValueEq), m[3] - 1) }

\* the group of a match
TokenGroup(command, text, m) ==
    IF command = "elevate" THEN Slice(text, m[1] + Len(GckEq), m[3] - 1)
    ELSE Slice(text, m[2] + Len(ValueEq), m[3] - 1)

\* positions at which a literal occurs in a text
Occurrences(text, pat) == {i \in 1..Len(text) : MatchAt(text, i, pat)}

C13_TokenNotFoundRaises ==
    tphase = "done" =>
        /\ got.raised \in {"none", "ValueError"}
        /\ TokenMatches(tcommand, page) = {} =>
              (got.raised = "ValueError" /\ got.token = None)
        /\ got.raised = "ValueError" =>
              /\ got.token = None
              /\ got.message # <<>>
              /\ tcommand = "run_script" =>
                    \E k \in 1..Len(got.message) :
                        got.message[k] = "Try logging in again (snow login)"
        /\ got.raised = "none" =>
              /\ got.token # None
              /\ Len(got.token) >= 1
              /\ \A k \in 1..Len(got.token) : IsWordChar(got.token[k])

\* get_script_token raised on a page that names sysparm_ck without a token
C13_Witness ==
    /\ tphase = "done"
    /\ tcommand = "run_script"
    /\ got.raised = "ValueError"
    /\ Occurrences(page, SysparmCk) # {}

(***************************************************************************)
(* Properties of saving: concurrent sessions, interruption, permissions    *)
(***************************************************************************)
\* C14, as claimed: sessions of one instance save without locking, each save
\* overwrites the whole file with the saving session's own store, so that
\* after a session has written, the file holds exactly that session's store.
C14_LastWriterWins ==
    [][ \A p \in live :
          (proc[p].pc = "write" /\ proc'[p].pc = "chmod") =>
              cookie_file'[TmpDir(proc[p].instance)].text = JarText(proc[p].store)
      ]_vars

\* C15, as claimed: from the moment _save_cookies begins to rewrite the file
\* until get/post returns, the file on disk is a complete, loadable jar that
\* holds the store being persisted; it is never empty or partly written.
C15_FileCompleteAtEveryPoint ==
    \A p \in live : proc[p].pc \in {"write", "chmod", "ret"} =>
        /\ FileOf(p).exists
        /\ FileOf(p).text # <<>>
        /\ ~LoadRaises(FileOf(p))
        /\ FileOf(p).text = JarText(proc[p].store)

\* C16, as claimed: while _save_cookies creates or rewrites the cookie file,
\* and after it, the file's mode is 0600.
C16_OwnerOnlyAtEveryMoment ==
    \A p \in live : proc[p].pc \in {"write", "chmod", "ret"} =>
        (FileOf(p).exists /\ FileOf(p).mode = "0600")

(***************************************************************************)
(* Properties of an invocation and of the instances                        *)
(***************************************************************************)
\* the requests of an invocation with a given method
SentWith(p, method) == {n \in 1..Len(proc[p].sent) : proc[p].sent[n].method = method}

\* an invocation sends at most one GET and then at most one POST, saves at
\* most twice, and has ended once a request failed at transport level, no
\* token was found or the POST was answered without success
AtMostOnePair ==
    \A p \in live :
        /\ Cardinality(SentWith(p, "GET")) <= 1
        /\ Cardinality(SentWith(p, "POST")) <= 1
        /\ \A n \in SentWith(p, "POST") : n = 2 /\ 1 \in SentWith(p, "GET")
        /\ proc[p].save_calls <= 2
        /\ proc[p].saves <= 2
        /\ (\E n \in 1..Len(proc[p].sent) : proc[p].sent[n].reply = None) => proc[p].pc = "done"
        /\ proc[p].exc # "none" => (proc[p].pc = "done" /\ proc[p].rc = 1)
        /\ ( /\ proc[p].pc \in {"send", "open", "write", "chmod"}
             /\ proc[p].phase = "get" ) => Len(proc[p].sent) <= 1

\* an invocation that has ended sends nothing more: its record stays as it
\* is until a new invocation starts with no request sent
EndedStaysEnded ==
    [][ \A p \in live :
          proc[p].pc = "done" =>
              \/ proc'[p] = proc[p]
              \/ proc'[p].sent = <<>>
      ]_vars

\* C17: an invocation of login, elevate or run_script sends at most one
\* token-page GET and then at most one POST, one after the other; nothing is
\* sent again after a failure, and the cookie file is rewritten at most twice.
C17_NoRetry == []AtMostOnePair /\ EndedStaysEnded

\* an invocation ended with return code 1 after its POST was answered with
\* an error status: two requests, two saves
C17_Witness ==
    \E p \in live :
        /\ proc[p].pc = "done"
        /\ proc[p].rc = 1
        /\ proc[p].exc = "none"
        /\ Len(proc[p].sent) = 2
        /\ proc[p].saves = 2

\* the domains of the cookies a jar file holds
FileDomains(f) ==
    LET store == LoadCookies(f)
    IN  {store[n].domain : n \in 1..Len(store)}

\* a step of a process working on one instance leaves the files of every
\* other instance as they were
OtherInstancesUntouched ==
    [][ \A p \in live : proc'[p] # proc[p] =>
          \A i \in Instances \ {proc'[p].instance} :
             /\ cookie_file'[i] = cookie_file[i]
             /\ last_run_output'[i] = last_run_output[i]
      ]_vars

\* a session holds only cookies of its own instance, loaded from that
\* instance's file, and each file holds only its instance's cookies
OwnCookiesOnly ==
    /\ \A p \in live : \A n \in 1..Len(proc[p].store) :
          proc[p].store[n].domain = Domain(proc[p].instance)
    /\ \A i \in Instances : FileDomains(cookie_file[i]) \subseteq {Domain(i)}
    /\ \A p \in live :
          (proc[p].pc = "send" /\ proc[p].phase = "get") =>
              proc[p].store = LoadCookies(cookie_file[proc[p].instance])

\* C18: sessions of different instances use different cookie files: requests
\* of a session for one instance leave the cookie file and the store of any
\* other instance unchanged, and no cookie of one instance is held, sent or
\* saved by a session of another.
C18_InstancesIsolated == []OwnCookiesOnly /\ OtherInstancesUntouched

\* a session for prd has saved a cookie it received while the file of dev,
\* rewritten by an earlier invocation, holds other cookies
C18_Witness ==
    \E p \in live :
        /\ proc[p].instance = "prd"
        /\ proc[p].pc = "ret"
        /\ proc[p].set_cookies # <<>>
        /\ cookie_file["dev"].text # JarText(OldStore(Domain("dev")))
        /\ cookie_file["dev"].text # cookie_file["prd"].text

(***************************************************************************)
(* The parser on blocks whose markers are written in another letter case   *)
(***************************************************************************)
\* "*** SCRIPT: " and "*** script: "
ScriptUpperCase == <<"*","*","*"," ","S","C","R","I","P","T",":"," ">>
ScriptLowerCase == <<"*","*","*"," ","s","c","r","i","p","t",":"," ">>

CasePieces ==
    { ScriptUpperCase, ScriptLowerCase, ScriptSplit, BrUpper,
      <<"a">>, <<"b">>, <<" ">>, PreClose \o PreOpen }

CaseInputs ==
    { PreOpen \o Flatten(ps) \o PreClose :
        ps \in UNION { [1..n -> CasePieces] : n \in 0..MaxPieces } }

CaseInit ==
    /\ SessionIdle
    /\ TokenIdle
    /\ OthersIdle
    /\ html \in CaseInputs
    /\ parsed = NoOutput
    /\ trace = <<>>
    /\ dphase = "ready"

SpecCase == CaseInit /\ [][DemuxNext]_dvars

\* block k was split at a "*** Script: " marker, and no "*** Script:" in the
\* letter case of the code occurs in it
OtherCaseOnly(k) ==
    /\ \E i \in 1..Len(trace[k].seps) : trace[k].seps[i] = "script"
    /\ ~Contains(trace[k].block, ScriptMarker)

\* C19: a block whose "*** Script: " markers are all written in another letter
\* case is split at them (no part holds a marker in any case), all of its
\* non-blank segments go to stderr and it adds nothing to stdout.
C19_OtherCaseMarkersToStderr ==
    dphase = "done" =>
        /\ \A k \in 1..Len(trace) : OtherCaseOnly(k) =>
              /\ Len(trace[k].parts) = Len(trace[k].seps) + 1
              /\ \A n \in 1..Len(trace[k].parts) :
                    /\ ~\E i \in 1..Len(trace[k].parts[n]) :
                           MatchAtCI(trace[k].parts[n], i, ScriptSplit)
                    /\ Strip(trace[k].parts[n]) # <<>> =>
                           Strip(trace[k].parts[n]) \in Range(parsed.stderr)
        /\ (\A k \in 1..Len(trace) : OtherCaseOnly(k)) =>
              /\ parsed.stdout = <<>>
              /\ parsed.stderr = InOrder(Segments)
        /\ \A t \in Range(parsed.stdout) :
              \E seg \in Segments : ~OtherCaseOnly(seg[1]) /\ SegText(seg) = t

\* a block in which text follows an upper-case marker at an odd position of
\* the split list, and which went to stderr
C19_Witness ==
    /\ dphase = "done"
    /\ \E seg \in Segments :
          /\ OtherCaseOnly(seg[1])
          /\ SegPos(seg) % 2 = 1
          /\ FollowsScript(seg[1], seg[2])
          /\ SegText(seg) \in Range(parsed.stderr)
          /\ parsed.stdout = <<>>

(***************************************************************************)
(* The parser on blocks holding character references                       *)
(***************************************************************************)
Lt  == <<"&","l","t",";">>
Gt  == <<"&","g","t",";">>
Amp == <<"&","a","m","p",";">>

\* "&lt;BR/&gt;": the marker <BR/>, encoded
EncodedBr == Lt \o <<"B","R","/">> \o Gt

\* "&amp;lt;BR/&amp;gt;": the marker encoded twice
TwiceEncodedBr == Amp \o <<"l","t",";","B","R","/">> \o Amp \o <<"g","t",";">>

EntityPieces ==
    { EncodedBr, TwiceEncodedBr, BrUpper, ScriptSplit, Amp,
      <<"a">>, <<"b">>, <<" ">> }

EntityInputs ==
    { PreOpen \o Flatten(ps) \o PreClose :
        ps \in UNION { [1..n -> EntityPieces] : n \in 0..MaxPieces } }

EntityInit ==
    /\ SessionIdle
    /\ TokenIdle
    /\ OthersIdle
    /\ html \in EntityInputs
    /\ parsed = NoOutput
    /\ trace = <<>>
    /\ dphase = "ready"

SpecEntity == EntityInit /\ [][DemuxNext]_dvars

RECURSIVE Decoded(_, _)
\* the text with each of the references &lt; &gt; &amp; replaced by its
\* character, in one pass from position i
Decoded(text, i) ==
    IF i > Len(text) THEN <<>>
    ELSE IF MatchAt(text, i, Lt)  THEN <<"<">> \o Decoded(text, i + Len(Lt))
    ELSE IF MatchAt(text, i, Gt)  THEN <<">">> \o Decoded(text, i + Len(Gt))
    ELSE IF MatchAt(text, i, Amp) THEN <<"&">> \o Decoded(text, i + Len(Amp))
    ELSE <<text[i]>> \o Decoded(text, i + 1)

\* C20: the references of a block are decoded once, before the block is split
\* and classified: the result is that of the same document with the characters
\* in place of the references, an encoded <BR/> splits like <BR/> itself, a
\* marker encoded twice comes out as the text "&lt;BR/&gt;" and does not
\* split, and no emitted segment holds a reference that was in the input.
C20_DecodedOnceBeforeSplit ==
    dphase = "done" =>
        LET literal == Decoded(html, 1)
            emitted == Range(parsed.stdout) \cup Range(parsed.stderr)
        IN  /\ ~Contains(literal, <<"&">>) => parsed = ParseOutput(literal)
            /\ \A k \in 1..Len(trace) :
                  Len(trace[k].parts) = 1 + Cardinality(
                     {i \in 1..Len(html) : MatchAt(html, i, EncodedBr)
                                           \/ MatchAt(html, i, BrUpper)
                                           \/ MatchAt(html, i, ScriptSplit)})
            /\ \A t \in emitted :
                  /\ ~Contains(t, Amp)
                  /\ ~Contains(t, <<"<","B","R","/",">">>)
            /\ Contains(html, TwiceEncodedBr) =>
                  \E t \in emitted : Contains(t, EncodedBr)

\* text on both sides of an encoded marker, next to a marker encoded twice
C20_Witness ==
    /\ dphase = "done"
    /\ \E i \in 1..Len(html) :
          /\ MatchAt(html, i, <<"a">> \o EncodedBr \o <<"b">>)
    /\ Contains(html, TwiceEncodedBr)
    /\ Len(parsed.stderr) + Len(parsed.stdout) >= 2

(***************************************************************************)
(* Text outside the <PRE> blocks: before, between and after the pairs,     *)
(* tags in any letter case, newlines inside a block                        *)
(***************************************************************************)
\* an opening tag with text after it
OpenTail == PreOpen \o <<"c">>

TwoLines == <<"a","\n","b">>

PrePieces ==
    { PreOpen, PreClose, MixedOpen, MixedClose, OpenTail, TwoLines, <<"c">> }

PreInputs ==
    { Flatten(ps) : ps \in UNION { [1..n -> PrePieces] : n \in 0..MaxPieces } }

PreInit ==
    /\ SessionIdle
    /\ TokenIdle
    /\ OthersIdle
    /\ html \in PreInputs
    /\ parsed = NoOutput
    /\ trace = <<>>
    /\ dphase = "ready"

SpecPre == PreInit /\ [][DemuxNext]_dvars

\* the positions of the opening and of the closing tags, in any letter case
Opens(text)  == {i \in 1..Len(text) : MatchAtCI(text, i, PreOpen)}
Closes(text) == {j \in 1..Len(text) : MatchAtCI(text, j, PreClose)}

Least(S) == CHOOSE n \in S : \A m \in S : n <= m

RECURSIVE PrePairs(_, _)
\* the <PRE>...</PRE> pairs of the text from a position on, as <<position of
\* the opening tag, position of the closing tag>>: the first opening tag that
\* has a closing tag after it, with the first such closing tag, then the
\* pairs after that closing tag
PrePairs(text, from) ==
    LET closed == {i \in Opens(text) : /\ i >= from
                                       /\ \E j \in Closes(text) : j >= i + Len(PreOpen)}
    IN  IF closed = {} THEN <<>>
        ELSE LET i == Least(closed)
                 j == Least({c \in Closes(text) : c >= i + Len(PreOpen)})
             IN  <<<<i, j>>>> \o PrePairs(text, j + Len(PreClose))

\* the text with everything outside the pairs deleted
InsideOnly(text, pairs) ==
    Flatten([k \in 1..Len(pairs) |->
                Slice(text, pairs[k][1], pairs[k][2] + Len(PreClose) - 1)])

\* C21: only text inside a <PRE>...</PRE> pair reaches a stream.  The blocks
\* parsed are exactly the contents of the pairs (tags in any letter case, the
\* content with its newlines, up to the first closing tag after the opening
\* tag), every line of a stream is a trimmed part of such a block, and the
\* streams are those of the text with everything outside the pairs, and after
\* an opening tag that is never closed, deleted.
C21_OnlyInsidePairs ==
    dphase = "done" =>
        LET pairs == PrePairs(html, 1)
        IN  /\ Len(trace) = Len(pairs)
            /\ \A k \in 1..Len(pairs) :
                  /\ trace[k].block =
                        Unescape(Slice(html, pairs[k][1] + Len(PreOpen), pairs[k][2] - 1))
                  /\ \A c \in Closes(html) :
                        ~(pairs[k][1] + Len(PreOpen) <= c /\ c < pairs[k][2])
            /\ \A t \in Range(parsed.stdout) \cup Range(parsed.stderr) :
                  \E k \in 1..Len(trace) : \E n \in 1..Len(trace[k].parts) :
                      t = Strip(trace[k].parts[n])
            /\ parsed = ParseOutput(InsideOnly(html, pairs))

\* "y<pre>a(newline)b</Pre>z<PRE>c": text before and after a pair in mixed
\* case, a block of two lines, and text after an opening tag never closed
C21_Witness ==
    /\ dphase = "done"
    /\ html = MixedOpen \o TwoLines \o MixedClose \o OpenTail
    /\ parsed = [stdout |-> <<>>, stderr |-> <<TwoLines>>]

(***************************************************************************)
(* What the commands return (commands.py 24-157)                           *)
(***************************************************************************)
\* the failures of a command that raise inside its try block
Failures == {"config", "token", "transport", "file", "unreadable", "save"}

\* C22: no exception leaves login, elevate or run_script.  A command that has
\* ended returned 0 or 1; when the configuration check, the token getter, the
\* HTTP client, the reading of the script file or the saving of the cookies
\* raised, it returned 1 and wrote the one message of its except clause to
\* stderr.
C22_NoExceptionLeaves ==
    \A p \in Procs :
        /\ proc[p].pc # "raised"
        /\ proc[p].pc = "done" =>
              /\ proc[p].rc \in {0, 1}
              /\ proc[p].exc \in Failures \cup {"none"}
              /\ proc[p].exc \in Failures =>
                    /\ proc[p].rc = 1
                    /\ Len(proc[p].err) = 1
                    /\ proc[p].err[1] \in
                          {"Login error: ", "Elevation error: ",
                           "Script execution error: ", "Script file not found: "}
              /\ proc[p].rc = 1 => proc[p].err # <<>>
              /\ proc[p].rc = 0 => proc[p].err = <<>>

\* run_script's POST fails in the HTTP client after its GET gave a token
C22_Witness ==
    \E p \in Procs :
        /\ proc[p].pc = "done"
        /\ proc[p].command = "run_script"
        /\ proc[p].exc = "transport"
        /\ Len(proc[p].sent) = 2
        /\ proc[p].rc = 1
        /\ proc[p].err = <<"Script execution error: ">>

(***************************************************************************)
(* run_script on an instance with a session and, possibly, the output of   *)
(* an earlier run (commands.py 102-157)                                    *)
(***************************************************************************)
ScriptInit ==
    /\ cookie_file = [i \in Instances |-> JarFile("0600", JarText(OldStore(Domain(i))))]
    /\ \E old \in {None, Hello} :
          last_run_output = [i \in Instances |-> IF i = "dev" THEN old ELSE None]
    /\ proc = [p \in Procs |-> IdleProc]
    /\ requests = 0
    /\ live = {1}
    /\ targets = {"dev"}
    /\ html = <<>> /\ trace = <<>> /\ parsed = NoOutput /\ dphase = "off"
    /\ TokenIdle
    /\ OthersIdle

ScriptNext ==
    \/ \E p \in Procs, instance \in Instances : Invoke(p, "run_script", instance)
    \/ \E p \in Procs :
          \E status \in (IF proc[p].phase = "get" THEN GetStatuses ELSE PostStatuses),
             directives \in FewCookies(Domain(proc[p].instance)),
             body \in (IF proc[p].phase = "get" THEN {PageSysparm, PagePlain}
                       ELSE ScriptBodies) :
             Respond(p, status, directives, body)
    \/ \E p \in Procs : SaveOpen(p)
    \/ \E p \in Procs : SaveWrite(p)
    \/ \E p \in Procs : SaveChmod(p)
    \/ \E p \in Procs : TakeToken(p)
    \/ \E p \in Procs : Finish(p)

SpecScript == ScriptInit /\ [][ScriptNext]_vars

\* run_script of p has its POST's response in hand and ends in this step
ScriptPostReturns(p) ==
    /\ proc[p].command = "run_script"
    /\ proc[p].pc = "ret"
    /\ proc[p].phase = "post"
    /\ proc'[p].pc = "done"

\* C23: when the POST of run_script came back with a status other than 200,
\* the command returns 1, last_run_output.txt is left as it was and nothing
\* of the body is parsed or printed; with status 200 the raw body is written
\* to last_run_output.txt of the instance, the body is demultiplexed and the
\* command returns 0, whatever the stderr stream holds.
C23_ScriptStatusDecides ==
    [][\A p \in Procs : ScriptPostReturns(p) =>
          IF proc[p].status = 200
          THEN /\ last_run_output' =
                     [last_run_output EXCEPT ![TmpDir(proc[p].instance)] = proc[p].body]
               /\ proc'[p].out = ParseOutput(proc[p].body)
               /\ proc'[p].rc = 0
               /\ proc'[p].err = <<>>
          ELSE /\ last_run_output' = last_run_output
               /\ proc'[p].out = NoOutput
               /\ proc'[p].rc = 1
               /\ proc'[p].err = <<"Script execution failed with status: ">>]_vars

\* a run whose POST was answered with status 200 and a trace: stderr is not
\* empty, the command returned 0 and the body is in last_run_output.txt
C23_Witness ==
    \E p \in Procs :
        /\ proc[p].pc = "done"
        /\ proc[p].command = "run_script"
        /\ Len(proc[p].sent) = 2
        /\ proc[p].sent[2].reply = ExampleTrace
        /\ proc[p].out = [stdout |-> <<>>, stderr |-> <<TraceLine>>]
        /\ proc[p].rc = 0
        /\ last_run_output[TmpDir(proc[p].instance)] = ExampleTrace

\* the command of p holds the response of its POST to the command's action
\* URL
PostAnswered(p) ==
    /\ proc[p].pc = "ret"
    /\ proc[p].phase = "post"
    /\ proc[p].sent # <<>>
    /\ LET last == proc[p].sent[Len(proc[p].sent)]
       IN  /\ last.method = "POST"
           /\ last.reply # None
           /\ last.path = IF proc[p].command = "login" THEN "/login.do"
                          ELSE "/api/now/ui/impersonate/role"

\* C24: login returns 0 exactly when its POST to /login.do was answered with
\* status 200, elevate exactly when its POST to /api/now/ui/impersonate/role
\* was answered with 200 or 201; every other end of the two commands returns
\* 1.  Whatever is returned, the cookie file then holds the whole store with
\* the cookies of the last response merged in.
C24_ReturnCodeFromPost ==
    [][\A p \in Procs :
          (proc'[p] # proc[p] /\ proc'[p].pc = "done"
              /\ proc'[p].command \in {"login", "elevate"}) =>
          LET ok == /\ PostAnswered(p)
                    /\ proc[p].command = proc'[p].command
                    /\ proc[p].status \in
                          (IF proc[p].command = "login" THEN {200} ELSE {200, 201})
          IN  /\ proc'[p].rc = (IF ok THEN 0 ELSE 1)
              /\ PostAnswered(p) =>
                    /\ Merged(proc[p].store, proc[p].set_cookies)
                    /\ FileOf(p).text = JarText(proc[p].store)
                    /\ cookie_file' = cookie_file]_vars

\* login's POST was answered, with a status that is not 200: the command
\* returned 1 and the cookie file is there
C24_Witness ==
    \E p \in Procs :
        /\ proc[p].pc = "done"
        /\ proc[p].command = "login"
        /\ Len(proc[p].sent) = 2
        /\ proc[p].sent[2].method = "POST"
        /\ proc[p].sent[2].reply # None
        /\ proc[p].exc = "none"
        /\ proc[p].rc = 1
        /\ proc[p].err = <<"Login failed with status code: ">>
        /\ FileOf(p).exists
        /\ FileOf(p).mode = "0600"

(***************************************************************************)
(* The MCP tools snow_login, snow_elevate and snow_run_script              *)
(* (mcp_server.py 43-132) and the audit log (audit.py 36-71)               *)
(***************************************************************************)
\* number of tool calls served
MaxCalls == 2

ToolNames == {"snow_login", "snow_elevate", "snow_run_script"}

\* the command function a tool hands to _run_with_capture (lines 91, 109, 127)
CommandOf(name) ==
    CASE name = "snow_login"      -> "login"
      [] name = "snow_elevate"    -> "elevate"
      [] name = "snow_run_script" -> "run_script"

\* log_tool_call: the entry appended to audit.log (audit.py 52-68); the
\* time stamp and the duration are left out, "error" is present when an
\* error message was passed
AuditEntry(name, instance, outcome, error) ==
    [tool |-> name, params |-> [instance |-> instance], outcome |-> outcome,
     error |-> error]

\* the outcome a tool logs after _run_with_capture returned (mcp_server.py
\* 92, 110, 128): the literal "success", the exit code is not looked at
OutcomeLogged(exit_code) == "success"

\* _run_with_capture, lines 49-58: what the command printed to stdout and to
\* stderr, or a note when it printed nothing
CapturedResult(q) ==
    LET output == IF q.rc = 0 /\ q.command = "login"
                  THEN <<"Successfully logged in to ">>
                  ELSE IF q.rc = 0 /\ q.command = "elevate"
                  THEN <<"Successfully elevated privileges on ">>
                  ELSE q.out.stdout
        errors == q.err \o q.out.stderr
    IN  [stdout |-> output, stderr |-> errors,
         note |-> IF output # <<>> \/ errors # <<>> THEN ""
                  ELSE IF q.rc = 0 THEN "Done."
                  ELSE "Command failed (exit code 1)."]

\* a tool is called (lines 88-90, 106-108, 124-126): Config(instance) is
\* constructed; when that raises (a config.json that cannot be read), the
\* except clause logs "error" and raises again
ToolCall(p, name, instance) ==
    /\ p \in live
    /\ instance \in targets
    /\ tool[p].pc \in {"idle", "returned", "raised"}
    /\ tool[p].calls < MaxCalls
    /\ \E config_ok \in BOOLEAN :
          LET t == [IdleTool EXCEPT !.name = name, !.instance = instance,
                                    !.calls = tool[p].calls + 1]
          IN  IF config_ok
              THEN /\ tool' = [tool EXCEPT ![p] = [t EXCEPT !.pc = "running"]]
                   /\ proc' = [proc EXCEPT ![p] = IdleProc]
                   /\ UNCHANGED audit_log
              ELSE /\ tool' = [tool EXCEPT ![p] =
                                  [t EXCEPT !.pc = "raised", !.logged = "error"]]
                   /\ audit_log' = Append(audit_log,
                                         AuditEntry(name, instance, "error", TRUE))
                   /\ UNCHANGED proc
    /\ UNCHANGED <<cookie_file, last_run_output, requests, live, targets,
                   dvars, tvars, cvars, hvars>>

\* _run_with_capture calls the command (line 48); run_script is given the
\* script's text and reads no file
ToolRun(p) ==
    /\ tool[p].pc = "running"
    /\ proc[p].pc = "idle"
    /\ Invoke(p, CommandOf(tool[p].name), tool[p].instance)
    /\ proc'[p].exc \notin {"file", "unreadable"}

\* the command returned its exit code to _run_with_capture: the tool logs
\* the call and returns the captured text (lines 49-58, 92-93, 110-111,
\* 128-129); had the command raised, the tool would log "error" and raise
ToolReturn(p) ==
    /\ p \in live
    /\ tool[p].pc = "running"
    /\ proc[p].pc \in {"done", "raised"}
    /\ LET outcome == IF proc[p].pc = "done" THEN OutcomeLogged(proc[p].rc)
                      ELSE "error"
       IN  /\ audit_log' = Append(audit_log,
                 AuditEntry(tool[p].name, tool[p].instance, outcome,
                            proc[p].pc = "raised"))
           /\ tool' = [tool EXCEPT ![p] =
                 IF proc[p].pc = "done"
                 THEN [@ EXCEPT !.pc = "returned", !.exit_code = proc[p].rc,
                                !.logged = outcome,
                                !.result = CapturedResult(proc[p])]
                 ELSE [@ EXCEPT !.pc = "raised", !.logged = outcome]]
    /\ UNCHANGED <<svars, dvars, tvars, cvars, hvars>>

ToolsInit ==
    /\ cookie_file = [i \in Instances |-> JarFile("0600", JarText(OldStore(Domain(i))))]
    /\ last_run_output = [i \in Instances |-> None]
    /\ proc = [p \in Procs |-> IdleProc]
    /\ requests = 0
    /\ live = {1}
    /\ targets = {"dev"}
    /\ html = <<>> /\ trace = <<>> /\ parsed = NoOutput /\ dphase = "off"
    /\ TokenIdle
    /\ ToolsIdle /\ ConfigIdle /\ TablesIdle

ToolsNext ==
    \/ \E p \in Procs, name \in ToolNames, instance \in Instances :
          ToolCall(p, name, instance)
    \/ \E p \in Procs : ToolRun(p)
    \/ \E p \in Procs : HttpTransportError(p)
    \/ \E p \in Procs :
          \E status \in (IF proc[p].phase = "get" THEN GetStatuses ELSE PostStatuses),
             directives \in FewCookies(Domain(proc[p].instance)),
             body \in (IF proc[p].phase = "get" THEN Pages
                       ELSE IF proc[p].command = "run_script" THEN ScriptBodies
                       ELSE {<<>>}) :
             Respond(p, status, directives, body)
    \/ \E p \in Procs : SaveOpen(p)
    \/ \E p \in Procs : SaveWrite(p)
    \/ \E p \in Procs : SaveChmod(p)
    \/ \E p \in Procs : TakeToken(p)
    \/ \E p \in Procs : Finish(p)
    \/ \E p \in Procs : ToolReturn(p)

SpecTools == ToolsInit /\ [][ToolsNext]_vars

\* C25: each call of snow_run_script, snow_login or snow_elevate writes
\* exactly one audit entry, for the tool called; the entry's outcome is
\* "success" only when the command returned 0, and "error" when it
\* returned 1.
C25_AuditOutcomeMatchesExitCode ==
    \A p \in live :
        /\ Len(audit_log) =
              IF tool[p].pc = "running" THEN tool[p].calls - 1 ELSE tool[p].calls
        /\ tool[p].pc \in {"returned", "raised"} =>
              /\ audit_log[Len(audit_log)].tool = tool[p].name
              /\ audit_log[Len(audit_log)].outcome = tool[p].logged
        /\ tool[p].pc = "returned" =>
              /\ tool[p].logged = "success" => tool[p].exit_code = 0
              /\ tool[p].exit_code = 1 => tool[p].logged = "error"

(***************************************************************************)
(* The instance registry: Config.save_instance, set_default_instance and   *)
(* remove_instance on ~/.snow-run/config.json and the keyring              *)
(* (config.py 63-186).  config.json is modelled by its "instances" object, *)
(* as the list of its entries in the order of the file, and its            *)
(* "default_instance" key, which may be absent, null or a name.            *)
(***************************************************************************)
ConfigNames == {"dev", "prd", "tst"}

Admin == "admin"

Secret == "secret"

\* the names of the entries of "instances"
Configured(config) ==
    {config.instances[k].name : k \in 1..Len(config.instances)}

EntryOf(config, instance) ==
    config.instances[CHOOSE k \in 1..Len(config.instances) :
                        config.instances[k].name = instance]

\* what config["instances"].get(instance) gives for a name without an entry
NoEntry == [name |-> Null, user |-> Null, keyring |-> FALSE, password |-> Null]

\* a variant that updates the instance's entry in place, keeping the keys it
\* does not set (config["instances"][instance].update(...))
NewEntry_KeepsOldKeys(previous, instance, user, password, keyring_success) ==
    [name |-> instance, user |-> user, keyring |-> keyring_success,
     password |-> IF ~keyring_success THEN password ELSE previous.password]

\* lines 100-107: the entry save_instance stores; "password" only when the
\* keyring did not take the password (Null: the key is absent)
NewEntry(previous, instance, user, password, keyring_success) ==
    [name |-> instance, user |-> user, keyring |-> keyring_success,
     password |-> IF keyring_success THEN Null ELSE password]

\* config["instances"][instance] = entry: an existing key keeps its place in
\* the object, a new key goes to the end
PutEntry(instances, entry) ==
    IF \E k \in 1..Len(instances) : instances[k].name = entry.name
    THEN [k \in 1..Len(instances) |->
             IF instances[k].name = entry.name THEN entry ELSE instances[k]]
    ELSE Append(instances, entry)

\* keyring.set_password / delete_password for the service of the instance
KeyringSet(store, instance, user, password) ==
    {e \in store : ~(e.instance = instance /\ e.user = user)}
        \cup {[instance |-> instance, user |-> user, password |-> password]}

KeyringDelete(store, instance, user) ==
    {e \in store : ~(e.instance = instance /\ e.user = user)}

\* lines 79-117; the keyring takes the password or raises (lines 63-70)
SaveInstance(instance, user, password, set_default) ==
    \E keyring_success \in BOOLEAN :
        LET known == config_json.exists /\ instance \in Configured(config_json)
            previous == IF known THEN EntryOf(config_json, instance) ELSE NoEntry
        IN  /\ keyring' = IF keyring_success
                          THEN KeyringSet(keyring, instance, user, password)
                          ELSE keyring
            /\ config_json' =
                  [exists |-> TRUE,
                   instances |-> PutEntry(config_json.instances,
                       NewEntry(previous, instance, user, password, keyring_success)),
                   has_default |-> TRUE,
                   default_instance |->
                       IF set_default \/ ~config_json.has_default
                       THEN instance ELSE config_json.default_instance]
            /\ cfg_op' = [op |-> "save_instance", instance |-> instance,
                          raised |-> "none", keyring_success |-> keyring_success,
                          had_password |-> previous.password # Null,
                          was_default |-> config_json.default_instance = instance]
            /\ UNCHANGED <<svars, dvars, tvars, mvars, hvars>>

\* lines 143-157
SetDefaultInstance(instance) ==
    /\ IF ~config_json.exists \/ instance \notin Configured(config_json)
       THEN /\ cfg_op' = [NoOp EXCEPT !.op = "set_default_instance",
                                      !.instance = instance, !.raised = "ValueError"]
            /\ UNCHANGED config_json
       ELSE /\ cfg_op' = [NoOp EXCEPT !.op = "set_default_instance",
                                      !.instance = instance,
                                      !.was_default =
                                          config_json.default_instance = instance]
            /\ config_json' = [config_json EXCEPT !.has_default = TRUE,
                                                  !.default_instance = instance]
    /\ UNCHANGED <<keyring, svars, dvars, tvars, mvars, hvars>>

\* a variant that leaves "default_instance" as it is when the default
\* instance is removed
DefaultAfterRemove_Kept(default, remaining, instance) == default

\* lines 176-182: the default after `instance` was deleted
DefaultAfterRemove(default, remaining, instance) ==
    IF default = instance
    THEN IF remaining # <<>> THEN remaining[1].name ELSE Null
    ELSE default

\* lines 159-186; deleting the password from the keyring may fail silently
\* (lines 72-77)
RemoveInstance(instance) ==
    /\ cfg_op' = [NoOp EXCEPT !.op = "remove_instance", !.instance = instance,
                              !.was_default =
                                  /\ config_json.exists
                                  /\ instance \in Configured(config_json)
                                  /\ config_json.default_instance = instance]
    /\ IF config_json.exists /\ instance \in Configured(config_json)
       THEN LET remaining == SelectSeq(config_json.instances,
                                       LAMBDA e : e.name # instance)
            IN  /\ \E deleted \in BOOLEAN :
                      keyring' = IF deleted
                                 THEN KeyringDelete(keyring, instance,
                                         EntryOf(config_json, instance).user)
                                 ELSE keyring
                /\ config_json' =
                      [config_json EXCEPT
                          !.instances = remaining,
                          !.default_instance =
                              DefaultAfterRemove(@, remaining, instance)]
       ELSE UNCHANGED <<config_json, keyring>>
    /\ UNCHANGED <<svars, dvars, tvars, mvars, hvars>>

ConfigInit ==
    /\ SessionIdle
    /\ DemuxIdle
    /\ TokenIdle
    /\ ToolsIdle /\ ConfigIdle /\ TablesIdle

ConfigNext ==
    \/ \E instance \in ConfigNames, set_default \in BOOLEAN :
          SaveInstance(instance, Admin, Secret, set_default)
    \/ \E instance \in ConfigNames : SetDefaultInstance(instance)
    \/ \E instance \in ConfigNames : RemoveInstance(instance)

SpecConfig == ConfigInit /\ [][ConfigNext]_vars

\* default_instance is absent, null or the name of a configured instance
DefaultIsConfigured ==
    \/ ~config_json.has_default
    \/ config_json.default_instance = Null
    \/ config_json.default_instance \in Configured(config_json)

\* set_default_instance for an instance that is not configured raises
\* ValueError and changes nothing; remove_instance of the default instance
\* leaves a default that is a remaining instance or null
DefaultSteps ==
    [][/\ (cfg_op' # cfg_op /\ cfg_op'.op = "set_default_instance"
            /\ cfg_op'.instance \notin Configured(config_json)) =>
              /\ cfg_op'.raised = "ValueError"
              /\ config_json' = config_json
              /\ keyring' = keyring
       /\ (cfg_op' # cfg_op /\ cfg_op'.op = "remove_instance"
            /\ cfg_op'.instance \in Configured(config_json)
            /\ config_json.default_instance = cfg_op'.instance) =>
              /\ cfg_op'.instance \notin Configured(config_json')
              /\ config_json'.default_instance # cfg_op'.instance
              /\ config_json'.default_instance \in
                    Configured(config_json') \cup {Null}]_vars

\* C26: after any sequence of save_instance, set_default_instance and
\* remove_instance calls, default_instance in config.json is null, absent or
\* the name of a configured instance; set_default_instance for an instance
\* that is not configured raises ValueError and leaves the configuration
\* unchanged, and removing the default instance moves the default to a
\* remaining instance or to null.
C26_DefaultIsConfiguredInstance == []DefaultIsConfigured /\ DefaultSteps

\* the default instance was removed while another instance was configured,
\* and the default moved to it
C26_Witness ==
    /\ cfg_op.op = "remove_instance"
    /\ cfg_op.was_default
    /\ config_json.instances # <<>>
    /\ cfg_op.instance \notin Configured(config_json)
    /\ config_json.default_instance = config_json.instances[1].name

\* save_instance and remove_instance only
SaveRemoveNext ==
    \/ \E instance \in ConfigNames, set_default \in BOOLEAN :
          SaveInstance(instance, Admin, Secret, set_default)
    \/ \E instance \in ConfigNames : RemoveInstance(instance)

SpecSaveRemove == ConfigInit /\ [][SaveRemoveNext]_vars

\* C27: after any sequence of save_instance and remove_instance calls, a
\* registry that is not empty has a default_instance that is not null:
\* save_instance makes the saved instance the default whenever none is set.
C27_NonEmptyRegistryHasDefault ==
    (config_json.exists /\ config_json.instances # <<>>) =>
        /\ config_json.has_default
        /\ config_json.default_instance # Null

\* the "password" key of an entry is there exactly when its "keyring" flag
\* is false
PasswordIffNoKeyring ==
    \A k \in 1..Len(config_json.instances) :
        (config_json.instances[k].password # Null)
            <=> ~config_json.instances[k].keyring

\* a save_instance call leaves the password in the file exactly when the
\* keyring did not take it
SaveSteps ==
    [][(cfg_op' # cfg_op /\ cfg_op'.op = "save_instance") =>
          LET entry == EntryOf(config_json', cfg_op'.instance)
          IN  /\ entry.keyring = cfg_op'.keyring_success
              /\ (entry.password # Null) <=> ~cfg_op'.keyring_success
              /\ cfg_op'.keyring_success =>
                    \E e \in keyring' : /\ e.instance = cfg_op'.instance
                                         /\ e.password = Secret]_vars

\* C28: save_instance writes the password into config.json only when the
\* keyring did not take it: an entry has a "password" key exactly when its
\* "keyring" flag is false, and saving an instance again with a working
\* keyring removes the password the file held for it.
C28_PasswordOnlyWithoutKeyring == []PasswordIffNoKeyring /\ SaveSteps

\* an instance whose password was in the file has been saved again with a
\* working keyring: its entry holds no password
C28_Witness ==
    /\ cfg_op.op = "save_instance"
    /\ cfg_op.had_password
    /\ cfg_op.keyring_success
    /\ EntryOf(config_json, cfg_op.instance).keyring
    /\ EntryOf(config_json, cfg_op.instance).password = Null

(***************************************************************************)
(* _get_table_hierarchy (commands.py 258-287): the walk from a table up    *)
(* its super_class chain, one sys_db_object query per table                *)
(***************************************************************************)
TableA == <<"a">>
TableB == <<"b">>
TableC == <<"c">>

TableNames == {TableA, TableB, TableC}

\* a JSON cell: a string, an object with "value" and "display_value", or
\* no cell at all (the key is missing or null)
StrCell(text) == [kind |-> "str", value |-> text, display_value |-> <<>>]

DictCell(value, display_value) ==
    [kind |-> "dict", value |-> value, display_value |-> display_value]

NoCell == [kind |-> "none", value |-> <<>>, display_value |-> <<>>]

\* the "super_class.name" cells a server may return
ParentCells ==
    { NoCell, StrCell(<<>>), StrCell(<<" ">>),
      StrCell(TableA), StrCell(TableB), StrCell(TableC),
      StrCell(<<" ">> \o TableB \o <<" ">>),
      DictCell(TableA, <<>>), DictCell(<<>>, TableC), DictCell(<<>>, <<>>) }

\* the answers to one sys_db_object query: an error status, no row, or one
\* row (sysparm_limit=1)
Answers ==
    { [status |-> 500, rows |-> <<>>], [status |-> 200, rows |-> <<>>] }
    \cup { [status |-> 200, rows |-> <<cell>>] : cell \in ParentCells }

\* lines 283-286: the parent named by a row, trimmed; empty when there is
\* none
ParentName(cell) ==
    LET parent == IF cell.kind = "dict"
                  THEN IF cell.value # <<>> THEN cell.value ELSE cell.display_value
                  ELSE cell.value
    IN  Strip(parent)

\* a variant of the loop condition without the visited set
Continues_WithoutVisited(current, visited) == current # <<>>

\* line 264: while current and current not in visited
Continues(current, visited) == current # <<>> /\ current \notin visited

\* lines 265-286: one pass of the loop, with its query
WalkStep ==
    /\ walk.pc = "loop"
    /\ Continues(walk.current, walk.visited)
    /\ LET answer == sys_db_object[walk.current]
           w == [walk EXCEPT !.visited = @ \cup {walk.current},
                             !.hierarchy = Append(@, walk.current),
                             !.queried = Append(@, walk.current)]
       IN  walk' = IF answer.status # 200 \/ answer.rows = <<>>
                   THEN [w EXCEPT !.pc = "done"]
                   ELSE [w EXCEPT !.current = ParentName(answer.rows[1])]
    /\ UNCHANGED <<sys_db_object, sys_dictionary, table_fields,
                   svars, dvars, tvars, mvars, cvars>>

\* lines 264, 287: the loop condition fails and the list is returned
WalkReturn ==
    /\ walk.pc = "loop"
    /\ ~Continues(walk.current, walk.visited)
    /\ walk' = [walk EXCEPT !.pc = "done"]
    /\ UNCHANGED <<sys_db_object, sys_dictionary, table_fields,
                   svars, dvars, tvars, mvars, cvars>>

\* a call for a table name, against a server with any super_class relation
HierarchyInit ==
    /\ SessionIdle
    /\ DemuxIdle
    /\ TokenIdle
    /\ ToolsIdle /\ ConfigIdle
    /\ sys_db_object \in [TableNames -> Answers]
    /\ \E table_name \in TableNames \cup {<<>>} :
          walk = [IdleWalk EXCEPT !.pc = "loop", !.table_name = table_name,
                                  !.current = table_name]
    /\ sys_dictionary = <<>>
    /\ table_fields = NotFetched

HierarchyNext == WalkStep \/ WalkReturn

\* the loop runs on: the function is sequential code and every query is
\* answered
SpecHierarchy ==
    HierarchyInit /\ [][HierarchyNext]_vars /\ WF_vars(HierarchyNext)

NoDuplicates(q) == \A m, n \in 1..Len(q) : q[m] = q[n] => m = n

\* what the server says about a table: the walk goes on from it when the
\* answer is a row with status 200 that names a parent
NamesParent(name) ==
    /\ sys_db_object[name].status = 200
    /\ sys_db_object[name].rows # <<>>
    /\ ParentName(sys_db_object[name].rows[1]) # <<>>

WalkShape ==
    LET h == walk.hierarchy
    IN  /\ walk.queried = h
        /\ NoDuplicates(h)
        /\ Len(h) <= Cardinality(TableNames)
        /\ (h # <<>>) => h[1] = walk.table_name
        /\ \A k \in 2..Len(h) :
              /\ NamesParent(h[k - 1])
              /\ h[k] = ParentName(sys_db_object[h[k - 1]].rows[1])
        /\ walk.pc = "done" =>
              IF walk.table_name = <<>> THEN h = <<>>
              ELSE /\ h # <<>>
                   /\ \/ ~NamesParent(h[Len(h)])
                      \/ \E k \in 1..Len(h) :
                            h[k] = ParentName(sys_db_object[h[Len(h)]].rows[1])

\* every step ends the walk or queries one table not queried before
WalkProgress ==
    [][walk' # walk =>
          \/ walk'.pc = "done" /\ walk'.hierarchy = walk.hierarchy
          \/ /\ Len(walk'.queried) = Len(walk.queried) + 1
             /\ walk'.queried[Len(walk'.queried)] \notin walk.visited
             /\ walk'.visited = walk.visited \cup {walk'.queried[Len(walk'.queried)]}]_vars

\* C29: _get_table_hierarchy terminates for every super_class relation, a
\* cyclic one included: each table is queried at most once, the list has no
\* duplicates, starts with the requested table and goes from each table to
\* the parent the server names for it, and the walk stops at the first
\* answer that is not 200, has no row or names no parent (or names a table
\* already in the list).
C29_HierarchyWalkTerminates ==
    /\ []WalkShape
    /\ WalkProgress
    /\ <>(walk.pc = "done")

\* a cycle a -> b -> c -> a: the walk returned [a, b, c]
C29_Witness ==
    /\ walk.pc = "done"
    /\ walk.hierarchy = <<TableA, TableB, TableC>>
    /\ NamesParent(TableC)
    /\ ParentName(sys_db_object[TableC].rows[1]) = TableA

(***************************************************************************)
(* _fetch_table_fields (commands.py 290-357): the dictionary rows of the   *)
(* tables of the hierarchy, one entry per field                            *)
(***************************************************************************)
\* number of rows the dictionary query returns
MaxRows == 3

\* a table that is not in any hierarchy walked here
TableX == <<"x">>

FieldF == <<"f">>
FieldG == <<"G">>

\* one sys_dictionary row as the Table API returns it with
\* sysparm_display_value=all
DictionaryRow(element, name, label) ==
    [element |-> DictCell(element, element),
     name |-> DictCell(name, <<"T">>),
     column_label |-> DictCell(label, label),
     internal_type |-> StrCell(<<"s">>),
     reference |-> NoCell]

DictionaryRows ==
    { DictionaryRow(element, name, label) :
          element \in {FieldF, FieldG}, name \in {TableA, TableB, TableX},
          label \in {<<"1">>, <<"2">>} }
    \cup { [DictionaryRow(<<>>, TableA, <<"1">>) EXCEPT
               !.element = DictCell(<<>>, <<"e">>)] }

\* lines 323-326: _val(cell)
Val(cell) == IF cell.kind = "none" THEN <<>> ELSE cell.value

\* ord() of a character of the model's alphabet
Ord(c) ==
    IF \E k \in 1..26 : UpperChars[k] = c
    THEN 64 + (CHOOSE k \in 1..26 : UpperChars[k] = c)
    ELSE IF \E k \in 1..26 : LowerChars[k] = c
    THEN 96 + (CHOOSE k \in 1..26 : LowerChars[k] = c)
    ELSE IF c = "_" THEN 95
    ELSE 32

RECURSIVE StrLess(_, _)
\* s < t for Python strings
StrLess(s, t) ==
    IF t = <<>> THEN FALSE
    ELSE IF s = <<>> THEN TRUE
    ELSE IF Ord(Head(s)) # Ord(Head(t)) THEN Ord(Head(s)) < Ord(Head(t))
    ELSE StrLess(Tail(s), Tail(t))

\* lines 332-343: the entries of the rows that name a field
RECURSIVE EntriesOf(_)
EntriesOf(raw) ==
    IF raw = <<>> THEN <<>>
    ELSE LET row == Head(raw)
             field_name == Val(row.element)
         IN  (IF field_name = <<>> THEN <<>>
              ELSE << [_table |-> Val(row.name), field |-> field_name,
                       label |-> Val(row.column_label),
                       type |-> Val(row.internal_type),
                       references |-> Val(row.reference)] >>)
             \o EntriesOf(Tail(raw))

\* lines 329, 349: table_priority.get(table, len(hierarchy))
Priority(hierarchy, table) ==
    IF \E i \in 1..Len(hierarchy) : hierarchy[i] = table
    THEN (CHOOSE i \in 1..Len(hierarchy) : hierarchy[i] = table) - 1
    ELSE Len(hierarchy)

\* a variant in which a later row of the same priority replaces the earlier
Replaces_OnTie(prio, seen_prio) == prio <= seen_prio

\* line 350: prio < seen[f][0]
Replaces(prio, seen_prio) == prio < seen_prio

RECURSIVE Deduplicate(_, _, _)
\* lines 346-351: seen, a dict in insertion order, as a list of
\* <<priority, entry>> with one element per field
Deduplicate(entries, hierarchy, seen) ==
    IF entries = <<>> THEN seen
    ELSE LET entry == Head(entries)
             prio == Priority(hierarchy, entry._table)
             known == {k \in 1..Len(seen) : seen[k][2].field = entry.field}
         IN  Deduplicate(Tail(entries), hierarchy,
                IF known = {} THEN Append(seen, <<prio, entry>>)
                ELSE [k \in 1..Len(seen) |->
                         IF k \in known /\ Replaces(prio, seen[k][1])
                         THEN <<prio, entry>> ELSE seen[k]])

\* line 354: the entry without its "_table" key
Public(entry) ==
    [field |-> entry.field, label |-> entry.label, type |-> entry.type,
     references |-> entry.references]

RECURSIVE InsertByField(_, _)
InsertByField(sorted, entry) ==
    IF sorted = <<>> THEN <<entry>>
    ELSE IF StrLess(entry.field, Head(sorted).field)
    THEN <<entry>> \o sorted
    ELSE <<Head(sorted)>> \o InsertByField(Tail(sorted), entry)

RECURSIVE SortedByField(_)
\* lines 353-356: sorted(..., key=lambda x: x["field"]), a stable sort
SortedByField(entries) ==
    IF entries = <<>> THEN <<>>
    ELSE InsertByField(SortedByField(SubSeq(entries, 1, Len(entries) - 1)),
                       entries[Len(entries)])

\* lines 299-357 after the hierarchy was walked: RuntimeError without a
\* hierarchy or with a status other than 200, else the list of fields
FetchTableFields ==
    /\ walk.pc = "done"
    /\ table_fields = NotFetched
    /\ table_fields' =
          IF walk.hierarchy = <<>> \/ sys_dictionary.status # 200
          THEN [raised |-> "RuntimeError", result |-> <<>>]
          ELSE LET seen == Deduplicate(EntriesOf(sys_dictionary.rows),
                                       walk.hierarchy, <<>>)
               IN  [raised |-> "none",
                    result |-> SortedByField(
                                  [k \in 1..Len(seen) |-> Public(seen[k][2])])]
    /\ UNCHANGED <<sys_db_object, walk, sys_dictionary,
                   svars, dvars, tvars, mvars, cvars>>

\* the super_class relations used here: a alone, a under b, and a under b
\* under a table that refers back to a
FieldsRelations ==
    { [t \in TableNames |-> [status |-> 200, rows |-> <<StrCell(<<>>)>>]],
      [t \in TableNames |->
          IF t = TableA THEN [status |-> 200, rows |-> <<StrCell(TableB)>>]
          ELSE [status |-> 200, rows |-> <<NoCell>>]],
      [t \in TableNames |->
          IF t = TableB THEN [status |-> 200, rows |-> <<DictCell(TableA, <<>>)>>]
          ELSE [status |-> 200, rows |-> <<StrCell(TableB)>>]] }

FieldsInit ==
    /\ SessionIdle
    /\ DemuxIdle
    /\ TokenIdle
    /\ ToolsIdle /\ ConfigIdle
    /\ sys_db_object \in FieldsRelations
    /\ \E table_name \in {TableA, TableB} :
          walk = [IdleWalk EXCEPT !.pc = "loop", !.table_name = table_name,
                                  !.current = table_name]
    /\ \E status \in {200, 500} :
       \E rows \in UNION { [1..n -> DictionaryRows] : n \in 0..MaxRows } :
          /\ status = 500 => rows = <<>>
          /\ sys_dictionary = [status |-> status, rows |-> rows]
    /\ table_fields = NotFetched

FieldsNext == WalkStep \/ WalkReturn \/ FetchTableFields

SpecFields == FieldsInit /\ [][FieldsNext]_vars

\* the rank of row k: the place of its table in the hierarchy, after all
\* of them for a table outside it
RowRank(k) ==
    LET table == sys_dictionary.rows[k].name.value
        h == walk.hierarchy
    IN  IF \E i \in 1..Len(h) : h[i] = table
        THEN CHOOSE i \in 1..Len(h) : h[i] = table
        ELSE Len(h) + 1

\* the rows that name the field
RowsOf(field) ==
    {k \in 1..Len(sys_dictionary.rows) :
        sys_dictionary.rows[k].element.value = field}

\* the row that defines the field: most specific table first, then the
\* earliest row
DefiningRow(field) ==
    CHOOSE k \in RowsOf(field) :
        \A m \in RowsOf(field) :
            RowRank(k) < RowRank(m) \/ (RowRank(k) = RowRank(m) /\ k <= m)

\* C30: _fetch_table_fields returns one entry per distinct field name of the
\* dictionary rows: the entry of the row on the most specific table (rows of
\* tables outside the hierarchy last, the first row on a tie), sorted by
\* field name, each entry with the keys field, label, type and references
\* only.
C30_OneEntryPerField ==
    (table_fields.raised = "none") =>
        LET r == table_fields.result
            rows == sys_dictionary.rows
            names == {rows[k].element.value : k \in 1..Len(rows)} \ {<<>>}
        IN  /\ {r[n].field : n \in 1..Len(r)} = names
            /\ Len(r) = Cardinality(names)
            /\ \A n \in 1..Len(r) :
                  LET row == rows[DefiningRow(r[n].field)]
                  IN  r[n] = [field |-> r[n].field,
                              label |-> row.column_label.value,
                              type |-> row.internal_type.value,
                              references |-> <<>>]
            /\ \A n \in 1..(Len(r) - 1) : StrLess(r[n].field, r[n + 1].field)

\* hierarchy [a, b]; rows: f on b, G on a table outside the hierarchy, f on
\* a.  The result is G, then f as defined on a.
C30_Witness ==
    /\ walk.hierarchy = <<TableA, TableB>>
    /\ sys_dictionary.rows =
          << DictionaryRow(FieldF, TableB, <<"1">>),
             DictionaryRow(FieldG, TableX, <<"1">>),
             DictionaryRow(FieldF, TableA, <<"2">>) >>
    /\ table_fields.raised = "none"
    /\ Len(table_fields.result) = 2
    /\ table_fields.result[1].field = FieldG
    /\ table_fields.result[2].field = FieldF
    /\ table_fields.result[2].label = <<"2">>

====
